---- MODULE Spec2Model ----
(***************************************************************************)
(* A model of server.js of the Stremio Jackett addon: the process-wide     *)
(* tracker cache (fetchTrackers), the stream handler                        *)
(* (GET /stream/:type/:id.json), searchJackett and the helpers they call.   *)
(*                                                                          *)
(* JavaScript runs every handler to completion between two awaits, so one   *)
(* action of the model is the code between two awaits of one invocation.    *)
(* Strings the code inspects character by character are sequences of        *)
(* one-character strings; strings it only passes around are TLA+ strings.   *)
(***************************************************************************)
EXTENDS Integers, Sequences, FiniteSets, TLC

VARIABLES
    now,               \* Date.now(), in milliseconds
    cachedTrackers,    \* server.js:50
    lastTrackerFetch,  \* server.js:51
    pc,                \* position of every caller (startup callback, stream requests)
    ft,                \* fetchTrackers invocation of every caller: githubUrl, now, return value
    lastStored,        \* history: what the last refresh that succeeded parsed, and its `now`
    upstream,          \* history: number of axios.get(githubUrl) issued so far
    calls,             \* history: number of fetchTrackers calls made so far
    env,               \* process.env.TRACKER_GITHUB_URL ("" when unset)
    indexer,           \* the feed the indexer has for every query text, where it goes by the text alone
    h,                 \* the stream handler's locals, per request
    sj                 \* the searchJackett frame, per request

vars == <<now, cachedTrackers, lastTrackerFetch, pc, ft, lastStored, upstream, calls, env, indexer, h, sj>>


-----------------------------------------------------------------------------
(* Bounds *)

MaxTicks == 2           \* the clock advances at most this many half-TTL steps
MaxCalls == 2           \* fetchTrackers calls in one run of SpecTrackers
MaxDeviations == 1      \* parameters in which a request differs from the default request
BigCount == 22          \* items of the largest indexer response
MaxQueries == 2         \* length of the query list searchJackett is called with in SpecSearch

(* Program constants *)

TRACKER_CACHE_DURATION == 1 * 60 * 60 * 1000

-----------------------------------------------------------------------------
(* Values *)

Requests == {"r1", "r2"}
Callers == {"startup"} \cup Requests

\* Date.now() when the process starts: some instant later than one TTL after
\* the epoch, so that lastTrackerFetch = 0 is never within the TTL.
StartTime == 3 * TRACKER_CACHE_DURATION
TickStep == TRACKER_CACHE_DURATION \div 2

\* trackerGithubUrl as the caller supplies it: absent/empty or a URL.
TrackerListUrl == "https://trackers.example/list.txt"
Urls == {"", TrackerListUrl}

\* An indexer that is free to answer the same query differently every time
NoTable == <<>>

\* One line of the tracker list: optional surrounding blanks, a scheme
\* prefix (possibly none) and the rest of the line.
Line(ws, scheme, rest) == [ws |-> ws, scheme |-> scheme, rest |-> rest]

\* Bodies axios.get(githubUrl) can resolve with. response.data is a string
\* (here already cut at "\n") or, for a JSON content type, a parsed object.
NotAString == "object"
TrackerBodies ==
    { NotAString,
      <<Line(FALSE, "", "")>>,
      <<Line(TRUE, "udp://", "a:1"), Line(FALSE, "ftp://", "x"), Line(FALSE, "https://", "b")>>,
      <<Line(FALSE, "http://", "c"), Line(FALSE, "", "# comment")>> }

-----------------------------------------------------------------------------
(* Sequence helpers *)

\* F of the value of v, with v worked out once: a `const x = v` before F
With(v, F(_)) == CHOOSE out \in { F(x) : x \in {v} } : TRUE

\* Array.prototype.filter with the predicate given as the set of kept values
SelectSeqBy(s, keep) == With(keep, LAMBDA k : SelectSeq(s, LAMBDA x : x \in k))

Range(s) == { s[i] : i \in DOMAIN s }

-----------------------------------------------------------------------------
(* JavaScript values: strings the code looks into, numbers, NaN, undefined *)

Str(chars) == [t |-> "str", s |-> chars]
Num(n) == [t |-> "num", n |-> n]
NaN == [t |-> "nan"]
Undef == [t |-> "undef"]          \* undefined and null alike

IsStr(v) == v.t = "str"
IsNum(v) == v.t = "num"

\* ToBoolean: what `if (v)`, `v || w`, `!v` and filter(Boolean) see
Truthy(v) ==
    CASE v.t = "str" -> v.s # <<>>
      [] v.t = "num" -> v.n # 0
      [] v.t \in {"nan", "undef"} -> FALSE
      [] OTHER -> TRUE            \* objects: arrays, dates; non-empty strings kept in parts

Digits == <<"0", "1", "2", "3", "4", "5", "6", "7", "8", "9">>
IsDigit(ch) == \E i \in DOMAIN Digits : Digits[i] = ch
DigitVal(ch) == (CHOOSE i \in DOMAIN Digits : Digits[i] = ch) - 1
IsSpace(ch) == ch = " "

RECURSIVE DropSpaces(_)
DropSpaces(s) ==
    IF s # <<>> /\ IsSpace(Head(s)) THEN DropSpaces(Tail(s)) ELSE s

RECURSIVE DropTrailingSpaces(_)
DropTrailingSpaces(s) ==
    IF s # <<>> /\ IsSpace(s[Len(s)])
    THEN DropTrailingSpaces(SubSeq(s, 1, Len(s) - 1)) ELSE s

\* String.prototype.trim
Trim(s) == DropTrailingSpaces(DropSpaces(s))

\* String.prototype.startsWith
StartsWith(s, prefix) ==
    Len(s) >= Len(prefix) /\ SubSeq(s, 1, Len(prefix)) = prefix

RECURSIVE DigitsValue(_, _)
\* the value of the longest run of digits s starts with, after acc
DigitsValue(s, acc) ==
    IF s # <<>> /\ IsDigit(Head(s))
    THEN DigitsValue(Tail(s), 10 * acc + DigitVal(Head(s)))
    ELSE acc

\* parseInt(v, 10): ToString(v), leading blanks skipped, an optional sign,
\* then the longest run of digits; NaN when there is no digit
ParseIntChars(chars) ==
    With(DropSpaces(chars), LAMBDA body :
    With(IF body # <<>> /\ Head(body) \in {"-", "+"} THEN Tail(body) ELSE body, LAMBDA rest :
        LET neg == body # <<>> /\ Head(body) = "-"
        IN IF rest = <<>> \/ ~IsDigit(Head(rest)) THEN NaN
           ELSE Num(IF neg THEN 0 - DigitsValue(rest, 0) ELSE DigitsValue(rest, 0))))

RECURSIVE NatChars(_)
\* ToString of a natural number
NatChars(n) ==
    IF n < 10 THEN <<Digits[n + 1]>> ELSE NatChars(n \div 10) \o <<Digits[(n % 10) + 1]>>

ParseInt(v) ==
    With(v, LAMBDA x :
        CASE x.t = "str" -> ParseIntChars(x.s)
          [] x.t = "num" -> x
          [] OTHER -> NaN)

\* `v || d` for a number v and a default d: the number unless it is 0 or NaN
NumOr(v, d) == IF Truthy(v) THEN v.n ELSE d

Min(a, b) == IF a <= b THEN a ELSE b
Max(a, b) == IF a >= b THEN a ELSE b

\* Array.prototype.slice(0, end) for an integer end
Slice0(s, end) ==
    LET e == IF end < 0 THEN Max(Len(s) + end, 0) ELSE Min(end, Len(s))
    IN SubSeq(s, 1, e)

-----------------------------------------------------------------------------
(* fetchTrackers, server.js:73-101 *)

\* line.trim(): the surrounding blanks go, the text stays
TrimLine(line) == [scheme |-> line.scheme, rest |-> line.rest]

\* line.startsWith('udp://') || line.startsWith('http://') || line.startsWith('https://')
IsTrackerLine(t) == t.scheme \in {"udp://", "http://", "https://"}

\* response.data.split('\n').map(trim).filter(...), server.js:88-90
ParseTrackers(body) ==
    LET trimmed == [i \in DOMAIN body |-> TrimLine(body[i])]
    IN SelectSeqBy(trimmed, { t \in Range(trimmed) : IsTrackerLine(t) })

CacheFresh(t) ==
    Len(cachedTrackers) > 0 /\ t - lastTrackerFetch < TRACKER_CACHE_DURATION

\* server.js:92-93, two assignments with no await between them
StoreSnapshot_TrackersOnly(trackers, t) ==
    cachedTrackers' = trackers /\ UNCHANGED lastTrackerFetch
StoreSnapshot(trackers, t) ==
    cachedTrackers' = trackers /\ lastTrackerFetch' = t

\* `!githubUrl`, server.js:74
Falsy(s) == s = ""

\* The frame of one fetchTrackers call. outcome and overlapped are history:
\* how the call ended, and whether a refresh that was in flight together with
\* this one has stored the snapshot.
NoCall == [url |-> "", now |-> 0, ret |-> <<>>, outcome |-> "none", overlapped |-> FALSE]

\* server.js:74-77: no URL, return [] at once
FtNoUrl_ReturnsCache(c) ==
    /\ pc[c] = "ft_call"
    /\ Falsy(ft[c].url)
    /\ ft' = [ft EXCEPT ![c].ret = cachedTrackers, ![c].outcome = "nourl"]
    /\ pc' = [pc EXCEPT ![c] = "ft_ret"]
    /\ UNCHANGED <<now, cachedTrackers, lastTrackerFetch, lastStored, upstream, calls, env, indexer, h, sj>>
FtNoUrl(c) ==
    /\ pc[c] = "ft_call"
    /\ Falsy(ft[c].url)
    /\ ft' = [ft EXCEPT ![c].ret = <<>>, ![c].outcome = "nourl"]
    /\ pc' = [pc EXCEPT ![c] = "ft_ret"]
    /\ UNCHANGED <<now, cachedTrackers, lastTrackerFetch, lastStored, upstream, calls, env, indexer, h, sj>>

\* server.js:79-83: the snapshot is fresh, return it
FtCacheHit(c) ==
    /\ pc[c] = "ft_call"
    /\ ~Falsy(ft[c].url)
    /\ CacheFresh(now)
    /\ ft' = [ft EXCEPT ![c].now = now, ![c].ret = cachedTrackers, ![c].outcome = "hit"]
    /\ pc' = [pc EXCEPT ![c] = "ft_ret"]
    /\ UNCHANGED <<now, cachedTrackers, lastTrackerFetch, lastStored, upstream, calls, env, indexer, h, sj>>

\* The callers whose axios.get(githubUrl) has not settled yet
InFlight == { c \in DOMAIN pc : pc[c] = "ft_await" }

\* server.js:79-87: no fresh snapshot, issue axios.get(githubUrl) and await it
FtRefreshStart(c) ==
    /\ pc[c] = "ft_call"
    /\ ~Falsy(ft[c].url)
    /\ ~CacheFresh(now)
    /\ upstream' = upstream + 1
    /\ ft' = [ft EXCEPT ![c].now = now]
    /\ pc' = [pc EXCEPT ![c] = "ft_await"]
    /\ UNCHANGED <<now, cachedTrackers, lastTrackerFetch, lastStored, calls, env, indexer, h, sj>>

\* server.js:96-100: the catch block
FtCatch_ClearsCache(c) ==
    /\ ft' = [ft EXCEPT ![c].ret = <<>>, ![c].outcome = "failed"]
    /\ pc' = [pc EXCEPT ![c] = "ft_ret"]
    /\ cachedTrackers' = <<>>
    /\ lastTrackerFetch' = 0
    /\ UNCHANGED <<now, lastStored, upstream, calls, env, indexer, h, sj>>
FtCatch_Rethrows(c) ==
    /\ ft' = [ft EXCEPT ![c].ret = <<>>, ![c].outcome = "failed"]
    /\ pc' = [pc EXCEPT ![c] = "ft_throw"]
    /\ UNCHANGED <<now, cachedTrackers, lastTrackerFetch, lastStored, upstream, calls, env, indexer, h, sj>>
FtCatch(c) ==
    /\ ft' = [ft EXCEPT ![c].ret =
                 IF Len(cachedTrackers) > 0 THEN cachedTrackers ELSE <<>>,
                        ![c].outcome = "failed"]
    /\ pc' = [pc EXCEPT ![c] = "ft_ret"]
    /\ UNCHANGED <<now, cachedTrackers, lastTrackerFetch, lastStored, upstream, calls, env, indexer, h, sj>>

\* server.js:87: axios.get rejects (network error, non-2xx status)
FtReject(c) ==
    /\ pc[c] = "ft_await"
    /\ FtCatch(c)

\* server.js:87-95: axios.get resolves; a body without split() throws into
\* the catch block, any other body is parsed and stored
FtResolve(c) ==
    /\ pc[c] = "ft_await"
    /\ \E body \in TrackerBodies :
          IF body = NotAString
          THEN FtCatch(c)
          ELSE LET trackers == ParseTrackers(body) IN
               /\ StoreSnapshot(trackers, ft[c].now)
               /\ lastStored' = [trackers |-> trackers, at |-> ft[c].now]
               /\ ft' = [d \in DOMAIN ft |->
                           IF d = c THEN [ft[c] EXCEPT !.ret = trackers, !.outcome = "ok"]
                           ELSE IF d \in InFlight THEN [ft[d] EXCEPT !.overlapped = TRUE]
                           ELSE ft[d]]
               /\ pc' = [pc EXCEPT ![c] = "ft_ret"]
               /\ UNCHANGED <<now, upstream, calls, env, indexer, h, sj>>

\* Time passes. Only fetchTrackers reads the clock (line 79), so the model
\* lets it advance where a call is about to read it.
Tick ==
    /\ \E c \in DOMAIN pc : pc[c] = "ft_call"
    /\ now < StartTime + MaxTicks * TickStep
    /\ now' = now + TickStep
    /\ UNCHANGED <<cachedTrackers, lastTrackerFetch, pc, ft, lastStored, upstream, calls, env, indexer, h, sj>>

-----------------------------------------------------------------------------
(* The stream request, server.js:436-459 *)

Arr(items) == [t |-> "arr", a |-> items]
IsArr(v) == v.t = "arr"

\* `arr && arr.length > 0`
NonEmptyArr(v) == IsArr(v) /\ Len(v.a) > 0

\* ids the route can carry
IdImdb == <<"t", "t", "1">>
IdKitsu == <<"k", "t", "t">>
IdShort == <<"t">>
IdBlank == <<" ">>            \* /stream/movie/%20.json
Ids == {IdImdb, IdKitsu, IdShort, IdBlank}

\* maxResults and filterBySeeders as the query string carries them
MaxResultsInputs ==
    { <<"2", "0">>, <<"2">>, <<"0">>, <<"-", "1">>, <<"1", "0", "0">>, <<"a", "b", "c">> }
SeedersInputs == { <<"0">>, <<"2">>, <<"-", "1">> }

\* req.params and req.query after the defaults of server.js:440-449
AllInputs ==
    [ type : {"movie", "series"},
      id : Ids,
      maxResults : MaxResultsInputs,
      filterBySeeders : SeedersInputs,
      sortBy : {"publishAt", "seeders"},
      trackerGithubUrl : Urls,
      tmdbApiKey : {"", "k"},
      omdbApiKey : {"", "k"},
      jackettHost : {"", "http://jackett:9117/"},
      jackettApiKey : {"", "k"} ]

\* the request of an installation configured as the manifest proposes;
\* trackerGithubUrl defaults to the environment's (line 446)
DefaultInput ==
    [ type |-> "movie", id |-> IdImdb, maxResults |-> <<"2", "0">>,
      filterBySeeders |-> <<"0">>, sortBy |-> "publishAt",
      trackerGithubUrl |-> env, tmdbApiKey |-> "k", omdbApiKey |-> "k",
      jackettHost |-> "http://jackett:9117/", jackettApiKey |-> "k" ]

InputFields == DOMAIN DefaultInput

\* the requests of S and those that differ from one of them in one parameter
Deviate1(S) ==
    S \cup { [i EXCEPT !.type = v] : i \in S, v \in {"movie", "series"} }
      \cup { [i EXCEPT !.id = v] : i \in S, v \in Ids }
      \cup { [i EXCEPT !.maxResults = v] : i \in S, v \in MaxResultsInputs }
      \cup { [i EXCEPT !.filterBySeeders = v] : i \in S, v \in SeedersInputs }
      \cup { [i EXCEPT !.sortBy = v] : i \in S, v \in {"publishAt", "seeders"} }
      \cup { [i EXCEPT !.trackerGithubUrl = v] : i \in S, v \in Urls }
      \cup { [i EXCEPT !.tmdbApiKey = v] : i \in S, v \in {"", "k"} }
      \cup { [i EXCEPT !.omdbApiKey = v] : i \in S, v \in {"", "k"} }
      \cup { [i EXCEPT !.jackettHost = v] : i \in S, v \in {"", "http://jackett:9117/"} }
      \cup { [i EXCEPT !.jackettApiKey = v] : i \in S, v \in {"", "k"} }

RECURSIVE Deviate(_, _)
\* the requests that differ from one of S in at most n parameters
Deviate(S, n) == IF n = 0 THEN S ELSE Deviate(Deviate1(S), n - 1)

\* the requests that differ from DefaultInput in at most MaxDeviations
\* parameters: the members i of AllInputs with
\* Cardinality({ f \in InputFields : i[f] # DefaultInput[f] }) <= MaxDeviations
StreamInputs == Deviate({DefaultInput}, MaxDeviations)

\* server.js:454-458
Unresolved == [resolvedTitle |-> Undef, resolvedYear |-> Undef, alternativeTitles |-> <<>>]

NoResponse == [status |-> 0, streams |-> <<>>, error |-> ""]

\* The handler's locals. providerCalls, providerResults, trackerOutcome and
\* sent are history: the metadata provider calls issued, in order, how each
\* of them ended ("failed": rejected or unusable body, "none": no result,
\* "notitle": a result without title, "title", "titles"), how the
\* fetchTrackers call ended, and the number of responses sent.
NoReq ==
    [ type |-> "", id |-> <<>>, maxResults |-> <<>>, filterBySeeders |-> <<>>, sortBy |-> "",
      trackerGithubUrl |-> "", tmdbApiKey |-> "", omdbApiKey |-> "",
      jackettHost |-> "", jackettApiKey |-> "" ]
NoHandler ==
    [ req |-> NoReq, parsedMaxResults |-> 0, parsedFilterBySeeders |-> 0,
      resolvedMetadata |-> Unresolved, jackettQueries |-> <<>>, tmdbId |-> Undef,
      trackers |-> <<>>, trackerOutcome |-> "none", providerCalls |-> <<>>,
      providerResults |-> <<>>,
      response |-> NoResponse, sent |-> 0 ]

-----------------------------------------------------------------------------
(* Metadata resolution, server.js:461-540 *)

TitleMx == <<"M", "x">>
TitleAlt == <<"M", "-", "X">>

\* One entry of movie_results / tv_results
MovieResult(id, title, date) ==
    [id |-> id, title |-> title, name |-> Undef, release_date |-> date, first_air_date |-> Undef]
TvResult(id, name, date) ==
    [id |-> id, title |-> Undef, name |-> name, release_date |-> Undef, first_air_date |-> date]

Date1999 == <<"1", "9", "9", "9", "-", "0", "3">>
Date2001 == <<"2", "0", "0", "1", "-", "1", "0">>

\* Bodies GET /3/find/{imdbId} can resolve with
TmdbFindBodies ==
    { Undef,
      [movie_results |-> Arr(<<>>), tv_results |-> Arr(<<>>)],
      [movie_results |-> Arr(<<MovieResult(Num(603), Str(TitleMx), Str(Date1999))>>),
       tv_results |-> Arr(<<TvResult(Num(0), Str(TitleAlt), Str(<<>>))>>)],
      [movie_results |-> Arr(<<MovieResult(Undef, Undef, Str(Date2001))>>),
       tv_results |-> Undef] }

\* Bodies GET /3/{movie|tv}/{id}/alternative_titles can resolve with
TmdbAltBodies ==
    { Undef,
      [titles |-> Undef],
      [titles |-> Arr(<<[title |-> Str(TitleAlt)], [title |-> Undef], [title |-> Str(TitleMx)]>>)] }

\* Bodies GET omdbapi.com/?i={imdbId} can resolve with
OmdbBodies ==
    { Undef,
      [Response |-> Str(<<"F">>), Title |-> Undef, Year |-> Undef],
      [Response |-> Str(<<"T">>), Title |-> Str(TitleMx), Year |-> Str(<<"1", "9", "9", "9">>)],
      [Response |-> Str(<<"T">>), Title |-> Undef, Year |-> Str(<<"N", "/", "A">>)] }

\* data.Response === 'True'
OmdbTrue == Str(<<"T">>)

\* date ? parseInt(date.substring(0, 4), 10) : null, server.js:478, 483
YearOfDate(date) ==
    IF Truthy(date) THEN ParseInt(Str(SubSeq(date.s, 1, Min(4, Len(date.s))))) ELSE Undef

RECURSIVE Unique(_)
\* [...new Set(s)]: the first occurrence of every value, in order
Unique(s) ==
    IF s = <<>> THEN <<>>
    ELSE LET init == Unique(SubSeq(s, 1, Len(s) - 1))
             last == s[Len(s)]
         IN IF last \in Range(init) THEN init ELSE Append(init, last)

\* q && q.trim() !== ''
NonBlank(q) == Truthy(q) /\ Trim(q.s) # <<>>

\* server.js:539
FinalQueries(queries) ==
    Unique(SelectSeqBy(queries, { q \in Range(queries) : NonBlank(q) }))

\* server.js:538-544: the queries are made unique and fetchTrackers is called
GoTrackers(r, hr) ==
    /\ h' = [h EXCEPT ![r] = [hr EXCEPT !.jackettQueries = FinalQueries(hr.jackettQueries)]]
    /\ ft' = [ft EXCEPT ![r] = [NoCall EXCEPT !.url = hr.req.trackerGithubUrl]]
    /\ pc' = [pc EXCEPT ![r] = "ft_call"]

\* server.js:518-521: OMDb is asked when no title is resolved and a key is
\* configured; otherwise the handler goes on to the queries
GoOmdbOrTrackers_AnyTitle(r, hr) ==
    IF ~Falsy(hr.req.omdbApiKey) /\ "omdb" \notin Range(hr.providerCalls)
    THEN /\ h' = [h EXCEPT ![r] = [hr EXCEPT !.providerCalls = Append(@, "omdb")]]
         /\ pc' = [pc EXCEPT ![r] = "omdb"]
         /\ UNCHANGED ft
    ELSE GoTrackers(r, hr)
GoOmdbOrTrackers(r, hr) ==
    IF ~Truthy(hr.resolvedMetadata.resolvedTitle) /\ ~Falsy(hr.req.omdbApiKey)
    THEN /\ h' = [h EXCEPT ![r] = [hr EXCEPT !.providerCalls = Append(@, "omdb")]]
         /\ pc' = [pc EXCEPT ![r] = "omdb"]
         /\ UNCHANGED ft
    ELSE GoTrackers(r, hr)

\* server.js:462
IsImdbId_AnyId(id) == TRUE
IsImdbId(id) == StartsWith(id, <<"t", "t">>)

\* server.js:437-469: the request arrives; the handler runs up to its first await
StreamReceive(r, inputs) ==
    /\ pc[r] = "idle"
    /\ pc["startup"] \notin {"idle", "ft_call"}   \* the server listens: its callback has run
    /\ \E i \in inputs :
        LET hr == [NoHandler EXCEPT
                     !.req = i,
                     !.parsedMaxResults = Min(NumOr(ParseInt(Str(i.maxResults)), 20), 20),
                     !.parsedFilterBySeeders = NumOr(ParseInt(Str(i.filterBySeeders)), 0),
                     !.jackettQueries = <<Str(i.id)>>]
        IN IF IsImdbId(i.id)
           THEN IF ~Falsy(i.tmdbApiKey)
                THEN /\ h' = [h EXCEPT ![r] = [hr EXCEPT !.providerCalls = <<"tmdb_find">>]]
                     /\ pc' = [pc EXCEPT ![r] = "tmdb_find"]
                     /\ UNCHANGED ft
                ELSE GoOmdbOrTrackers(r, hr)
           ELSE GoTrackers(r, hr)
    /\ UNCHANGED <<now, cachedTrackers, lastTrackerFetch, lastStored, upstream, calls, env, indexer, sj>>

\* history: the provider call the handler waits for has ended
Ended(hr, how) == [hr EXCEPT !.providerResults = Append(@, how)]

\* server.js:469, 513-515: the find call fails
TmdbFindReject_Throws(r) ==
    /\ pc[r] = "tmdb_find"
    /\ h' = [h EXCEPT ![r] = [Ended(h[r], "failed") EXCEPT
                 !.response = [status |-> 500, streams |-> <<>>, error |-> "tmdb"],
                 !.sent = @ + 1]]
    /\ pc' = [pc EXCEPT ![r] = "done"]
    /\ UNCHANGED <<now, cachedTrackers, lastTrackerFetch, ft, lastStored, upstream, calls, env, indexer, sj>>
TmdbFindReject(r) ==
    /\ pc[r] = "tmdb_find"
    /\ GoOmdbOrTrackers(r, Ended(h[r], "failed"))
    /\ UNCHANGED <<now, cachedTrackers, lastTrackerFetch, lastStored, upstream, calls, env, indexer, sj>>

\* server.js:475, 480: the answer holds a result of the request's type
FoundResult(hr, data) ==
    \/ hr.req.type = "movie" /\ NonEmptyArr(data.movie_results)
    \/ hr.req.type = "series" /\ NonEmptyArr(data.tv_results)

\* server.js:475-485: title, year and id of the first result of the request's type
PickResult(hr, data) ==
    IF hr.req.type = "movie" /\ NonEmptyArr(data.movie_results)
    THEN LET m == data.movie_results.a[1] IN
         [hr EXCEPT !.resolvedMetadata.resolvedTitle = m.title,
                    !.resolvedMetadata.resolvedYear = YearOfDate(m.release_date),
                    !.tmdbId = m.id]
    ELSE IF hr.req.type = "series" /\ NonEmptyArr(data.tv_results)
    THEN LET m == data.tv_results.a[1] IN
         [hr EXCEPT !.resolvedMetadata.resolvedTitle = m.name,
                    !.resolvedMetadata.resolvedYear = YearOfDate(m.first_air_date),
                    !.tmdbId = m.id]
    ELSE hr

\* server.js:470-512: the find call answers
TmdbFindResolve(r) ==
    /\ pc[r] = "tmdb_find"
    /\ \E data \in TmdbFindBodies :
        IF data = Undef
        THEN GoOmdbOrTrackers(r, Ended(h[r], "failed"))   \* data.movie_results throws, line 513
        ELSE LET picked == PickResult(h[r], data) IN
             IF Truthy(picked.resolvedMetadata.resolvedTitle)
             THEN LET hr == [Ended(picked, "title") EXCEPT !.jackettQueries =
                                <<picked.resolvedMetadata.resolvedTitle>> \o @]
                  IN IF Truthy(hr.tmdbId)
                     THEN /\ h' = [h EXCEPT ![r] =
                                     [hr EXCEPT !.providerCalls = Append(@, "tmdb_alt")]]
                          /\ pc' = [pc EXCEPT ![r] = "tmdb_alt"]
                          /\ UNCHANGED ft
                     ELSE GoOmdbOrTrackers(r, hr)
             ELSE GoOmdbOrTrackers(r, Ended(picked, IF FoundResult(h[r], data) THEN "notitle" ELSE "none"))
    /\ UNCHANGED <<now, cachedTrackers, lastTrackerFetch, lastStored, upstream, calls, env, indexer, sj>>

\* server.js:497, 506-508: the alternative-titles call fails
TmdbAltReject_OuterCatch(r) ==
    /\ pc[r] = "tmdb_alt"
    /\ GoOmdbOrTrackers(r, [Ended(h[r], "failed") EXCEPT !.resolvedMetadata = Unresolved])
    /\ UNCHANGED <<now, cachedTrackers, lastTrackerFetch, lastStored, upstream, calls, env, indexer, sj>>
TmdbAltReject(r) ==
    /\ pc[r] = "tmdb_alt"
    /\ GoOmdbOrTrackers(r, Ended(h[r], "failed"))
    /\ UNCHANGED <<now, cachedTrackers, lastTrackerFetch, lastStored, upstream, calls, env, indexer, sj>>

\* altTitlesData.titles.map(t => t.title).filter(Boolean), server.js:501
AltTitles(titles) ==
    LET ts == [i \in DOMAIN titles |-> titles[i].title]
    IN SelectSeqBy(ts, { t \in Range(ts) : Truthy(t) })

\* server.js:498-505: the alternative-titles call answers
TmdbAltResolve(r) ==
    /\ pc[r] = "tmdb_alt"
    /\ \E data \in TmdbAltBodies :
        IF data # Undef /\ NonEmptyArr(data.titles)
        THEN LET alts == AltTitles(data.titles.a) IN
             GoOmdbOrTrackers(r, [Ended(h[r], "titles") EXCEPT
                                     !.resolvedMetadata.alternativeTitles = alts,
                                     !.jackettQueries = alts \o @])
        ELSE GoOmdbOrTrackers(r, Ended(h[r], IF data = Undef THEN "failed" ELSE "none"))
    /\ UNCHANGED <<now, cachedTrackers, lastTrackerFetch, lastStored, upstream, calls, env, indexer, sj>>

\* server.js:521, 532-534: the OMDb call fails
OmdbReject(r) ==
    /\ pc[r] = "omdb"
    /\ GoTrackers(r, Ended(h[r], "failed"))
    /\ UNCHANGED <<now, cachedTrackers, lastTrackerFetch, lastStored, upstream, calls, env, indexer, sj>>

\* server.js:522-531: the OMDb call answers
OmdbResolve(r) ==
    /\ pc[r] = "omdb"
    /\ \E data \in OmdbBodies :
        IF data # Undef /\ data.Response = OmdbTrue
        THEN GoTrackers(r, [Ended(h[r], IF Truthy(data.Title) THEN "title" ELSE "notitle")
                               EXCEPT !.resolvedMetadata.resolvedTitle = data.Title,
                                      !.resolvedMetadata.resolvedYear = ParseInt(data.Year),
                                      !.jackettQueries = <<data.Title>> \o @])
        ELSE GoTrackers(r, Ended(h[r], IF data = Undef THEN "failed" ELSE "none"))
    /\ UNCHANGED <<now, cachedTrackers, lastTrackerFetch, lastStored, upstream, calls, env, indexer, sj>>

-----------------------------------------------------------------------------
(* The indexer's answers and parseJackettResponse, server.js:130-158 *)

\* A link, kept in parts: its scheme and what follows its first
\* "xt=urn:btih:" (Undef when the link has no such parameter)
Link(scheme, btih) == [t |-> "link", scheme |-> scheme, btih |-> btih]

\* pubDate as the feed writes it: a date new Date() understands, or not
RawDate(ok, year, day) == [t |-> "rawdate", ok |-> ok, year |-> year, day |-> day]

\* new Date(s): getTime() counts days in a calendar of 366-day years;
\* an unparsable string gives an Invalid Date, whose time is NaN
NewDate(raw) ==
    [t |-> "date",
     time |-> IF raw.ok THEN Num((raw.year - 1970) * 366 + raw.day) ELSE NaN]

GetTime(d) == d.time
GetFullYear(d) == IF IsNum(d.time) THEN Num(1970 + (d.time.n \div 366)) ELSE NaN

Attr(name, value) == [name |-> name, value |-> value]
Obj(o) == [t |-> "obj", o |-> o]

Item(title, magnetUri, link, attr, pubDate, guid) ==
    [title |-> title, magnetUri |-> magnetUri, link |-> link, size |-> Undef,
     attr |-> attr, pubDate |-> pubDate, guid |-> guid]

Hex(ch, n) == [i \in 1..n |-> ch]

TitleMx1999 == <<"M", "x", " ", "1", "9", "9", "9">>
TitleMx2003 == <<"M", "x", ".", "2", "0", "0", "3", ".", "x">>
TitleOther == <<"Z", "e", "d">>

SeedAttrs(seeders, peers) ==
    Arr(<<Attr("seeders", Str(seeders)), Attr("peers", Str(peers))>>)

ItemA == Item(Str(TitleMx1999), Link("magnet:", Str(Hex("a", 40))), Undef,
              SeedAttrs(<<"5">>, <<"1">>), RawDate(TRUE, 1999, 100), Str(<<"1">>))
\* the guid of ItemA with other fields
ItemA2 == Item(Str(TitleOther), Link("magnet:", Str(Hex("B", 40))), Undef,
               SeedAttrs(<<"1">>, <<"0">>), RawDate(TRUE, 2003, 5), Str(<<"1">>))
ItemB == Item(Str(TitleMx2003), Undef, Link("magnet:", Str(Hex("c", 41))),
              SeedAttrs(<<"3">>, <<"x">>), Undef, Str(<<"2">>))
\* no seeders attribute, a date new Date() cannot read, no usable info-hash
ItemD == Item(Str(TitleMx1999), Link("magnet:", Str(Hex("d", 39))), Undef,
              Undef, RawDate(FALSE, 0, 0), Str(<<"3">>))
\* a bare HTTP download link, and no link at all
ItemHttp == Item(Str(TitleMx1999), Undef, Link("http://", Undef),
                 SeedAttrs(<<"9">>, <<"9">>), Undef, Str(<<"4">>))
ItemNoLink == Item(Str(TitleMx1999), Undef, Undef,
                   SeedAttrs(<<"9">>, <<"9">>), Undef, Str(<<"5">>))
\* a single torznab:attr element: explicitArray:false gives an object, not an array
ItemOneAttr == Item(Str(TitleMx1999), Link("magnet:", Str(Hex("e", 40))), Undef,
                    Obj(Attr("seeders", Str(<<"7">>))), Undef, Str(<<"6">>))

\* an item without <title>
ItemNoTitle == Item(Undef, Link("magnet:", Str(Hex("9", 40))), Undef,
                    SeedAttrs(<<"4">>, <<"2">>), Undef, Str(<<"7">>))

\* item number i of the largest response
BigItem(i) ==
    Item(Str(TitleMx1999), Link("magnet:", Str(Hex(IF i % 2 = 0 THEN "a" ELSE "F", 40))), Undef,
         SeedAttrs(NatChars(i % 4), <<"0">>), RawDate(TRUE, 1999 + (i % 2), i),
         Str(<<"b">> \o NatChars(i)))

\* What xml2js makes of result.rss.channel.item: nothing, one object, an array
NoItems == Undef
OneItem(it) == Obj(it)
Items(its) == Arr(its)

\* The outcome of axios.get(jackettUrl): a body xml2js rejects, or the parsed feed
BadXml == [t |-> "badxml"]

\* line 140: item.magnetUri || item.link
FirstTruthy(a, b) == IF Truthy(a) THEN a ELSE b

\* item['torznab:attr']?.find(attr => attr.name === name)?.value, for an
\* attr that is absent or an array
FindAttr(attr, name) ==
    IF IsArr(attr) /\ \E i \in DOMAIN attr.a : attr.a[i].name = name
    THEN attr.a[CHOOSE i \in DOMAIN attr.a :
                   /\ attr.a[i].name = name
                   /\ \A j \in 1..(i - 1) : attr.a[j].name # name].value
    ELSE Undef

\* lines 139-152: one item of the feed as a torrent record
ParseItem(item) ==
    [title |-> item.title,
     link |-> FirstTruthy(item.magnetUri, item.link),
     size |-> item.size,
     seeders |-> ParseInt(FirstTruthy(FindAttr(item.attr, "seeders"), Num(0))),
     peers |-> ParseInt(FirstTruthy(FindAttr(item.attr, "peers"), Num(0))),
     publishAt |-> IF Truthy(item.pubDate) THEN NewDate(item.pubDate) ELSE Undef,
     guid |-> item.guid]

IsMagnet_AnyLink(torrent) == Truthy(torrent.link)
IsMagnet(torrent) == Truthy(torrent.link) /\ torrent.link.scheme = "magnet:"

\* lines 136-137
ItemList(feed) ==
    IF ~Truthy(feed) THEN <<>> ELSE IF IsArr(feed) THEN feed.a ELSE <<feed.o>>

\* `.find` of an attr that is a single object is not a function: line 141 throws
ParseThrows(feed) ==
    feed = BadXml \/ \E i \in DOMAIN ItemList(feed) : ItemList(feed)[i].attr.t = "obj"

\* parseJackettResponse of a feed it does not throw on
parseJackettResponse(feed) ==
    LET parsed == [i \in DOMAIN ItemList(feed) |-> ParseItem(ItemList(feed)[i])]
    IN SelectSeqBy(parsed, { x \in Range(parsed) : IsMagnet(x) })

-----------------------------------------------------------------------------
(* searchJackett, server.js:172-242 *)

JACKETT_FETCH_LIMIT == 50

\* lines 186-191
Categories ==
    <<"2000", "2030", "2040", "2045", "2060", "5000", "5030", "5040", "5045",
      "102000", "102060", "102040", "102030", "102045",
      "105000", "105040", "105030", "105045">>

\* The searchJackett frame: its config, the loop index, allTorrents and
\* seenGuids. dispatched is history: every indexer request issued, in order,
\* with what came back ("pending", "failed", or "ok" and the parsed torrents)
\* and the feed the indexer sent, if it sent one.
NoSearch ==
    [ jackettHost |-> "", jackettApiKey |-> "", queries |-> Undef, year |-> Undef,
      internalMaxResults |-> Undef, filterBySeeders |-> 0, sortBy |-> "publishAt",
      i |-> 0, allTorrents |-> <<>>, seenGuids |-> {}, dispatched |-> <<>>,
      result |-> <<>>, error |-> "" ]

\* line 194: skipped by the loop
BlankQuery(q) == ~Truthy(q) \/ Trim(q.s) = <<>>

\* lines 196-208: the parameters of one indexer request
SearchParams(f, q) ==
    [ q |-> q, cat |-> Categories,
      year |-> IF Truthy(f.year) THEN f.year ELSE Undef,
      limit |-> IF Truthy(f.internalMaxResults) THEN f.internalMaxResults ELSE Undef ]

RECURSIVE MergeTorrents(_, _, _)
\* lines 218-223: torrents.forEach, first guid wins
MergeTorrents_LastWins(all, seen, torrents) ==
    IF torrents = <<>> THEN [all |-> all, seen |-> seen]
    ELSE LET x == Head(torrents) IN
         MergeTorrents(
            SelectSeqBy(all, { y \in Range(all) : y.guid # x.guid }) \o <<x>>,
            seen \cup {x.guid}, Tail(torrents))
MergeTorrents(all, seen, torrents) ==
    IF torrents = <<>> THEN [all |-> all, seen |-> seen]
    ELSE LET x == Head(torrents) IN
         IF x.guid \in seen
         THEN MergeTorrents(all, seen, Tail(torrents))
         ELSE MergeTorrents(Append(all, x), seen \cup {x.guid}, Tail(torrents))

\* line 231
EnoughSeeders_Strict(torrent, filterBySeeders) ==
    IsNum(torrent.seeders) /\ torrent.seeders.n > filterBySeeders
EnoughSeeders(torrent, filterBySeeders) ==
    IsNum(torrent.seeders) /\ torrent.seeders.n >= filterBySeeders

\* line 237: publishAt?.getTime() || 0
PublishKey(torrent) ==
    IF Truthy(torrent.publishAt) /\ Truthy(GetTime(torrent.publishAt))
    THEN GetTime(torrent.publishAt).n ELSE 0

\* lines 234-238: the key the comparator orders by, descending
SortKey_AlwaysPublished(torrent, sortBy) == PublishKey(torrent)
SortKey(torrent, sortBy) ==
    IF sortBy = "seeders" THEN torrent.seeders.n ELSE PublishKey(torrent)

\* the place of each element after a stable sort, descending: behind every
\* element with a greater key and every earlier element with the same key
PlacesDesc(key) ==
    [i \in DOMAIN key |->
        1 + Cardinality({ j \in DOMAIN key : key[j] > key[i] \/ (key[j] = key[i] /\ j < i) })]

\* Array.prototype.sort with the comparator of lines 235/237: stable, descending
SortDesc(s, sortBy) ==
    With(PlacesDesc([i \in DOMAIN s |-> SortKey(s[i], sortBy)]), LAMBDA place :
        [k \in DOMAIN s |-> s[CHOOSE i \in DOMAIN s : place[i] = k]])

\* lines 230-241
FilterAndSort(f) ==
    SortDesc(SelectSeqBy(f.allTorrents,
                         { x \in Range(f.allTorrents) : EnoughSeeders(x, f.filterBySeeders) }),
             f.sortBy)

\* The queries from position i on that the loop does not skip
Pending(f, i) == { j \in i..Len(f.queries.a) : ~BlankQuery(f.queries.a[j]) }

\* lines 193-215 and 230-241: the loop goes on from position i, to the next
\* indexer request or, past the last query, to the filter, the sort and the return
SjContinue(r, frame, i) ==
    \E f \in { frame } :
    IF Pending(f, i) # {}
    THEN LET j == CHOOSE k \in Pending(f, i) : \A m \in Pending(f, i) : k <= m IN
         /\ sj' = [sj EXCEPT ![r] =
                     [f EXCEPT !.i = j,
                               !.dispatched = Append(@,
                                  [params |-> SearchParams(f, f.queries.a[j]),
                                   outcome |-> "pending", torrents |-> <<>>,
                                   feed |-> Undef])]]
         /\ pc' = [pc EXCEPT ![r] = "sj_await"]
    ELSE \E result \in { FilterAndSort(f) } :
         /\ sj' = [sj EXCEPT ![r] = [f EXCEPT !.i = i, !.result = result]]
         /\ pc' = [pc EXCEPT ![r] = "sj_ret"]

\* lines 173-193: the checks of the config, then the loop starts
SjCall_NoValidation(r) ==
    /\ pc[r] = "sj_call"
    /\ IF Falsy(sj[r].jackettHost) \/ Falsy(sj[r].jackettApiKey)
          \/ ~IsArr(sj[r].queries) \/ Len(sj[r].queries.a) = 0
       THEN /\ sj' = [sj EXCEPT ![r].result = <<>>]
            /\ pc' = [pc EXCEPT ![r] = "sj_ret"]
       ELSE SjContinue(r, sj[r], 1)
    /\ UNCHANGED <<now, cachedTrackers, lastTrackerFetch, ft, lastStored, upstream, calls, env, indexer, h>>
SjCall(r) ==
    /\ pc[r] = "sj_call"
    /\ IF Falsy(sj[r].jackettHost) \/ Falsy(sj[r].jackettApiKey)
       THEN /\ sj' = [sj EXCEPT ![r].error = "Jackett host and API key must be provided."]
            /\ pc' = [pc EXCEPT ![r] = "sj_throw"]
       ELSE IF ~IsArr(sj[r].queries) \/ Len(sj[r].queries.a) = 0
       THEN /\ sj' = [sj EXCEPT ![r].error = "Queries must be a non-empty array."]
            /\ pc' = [pc EXCEPT ![r] = "sj_throw"]
       ELSE SjContinue(r, sj[r], 1)
    /\ UNCHANGED <<now, cachedTrackers, lastTrackerFetch, ft, lastStored, upstream, calls, env, indexer, h>>

\* lines 224-227: the catch block of one query
SjCatch_Rethrows(r, f) ==
    /\ sj' = [sj EXCEPT ![r] = [f EXCEPT !.dispatched[Len(f.dispatched)].outcome = "failed",
                                         !.error = "query failed"]]
    /\ pc' = [pc EXCEPT ![r] = "sj_throw"]
SjCatch(r, f) ==
    SjContinue(r, [f EXCEPT !.dispatched[Len(f.dispatched)].outcome = "failed"], f.i + 1)

\* line 215: axios.get(jackettUrl) rejects
SjReject(r) ==
    /\ pc[r] = "sj_await"
    /\ SjCatch(r, sj[r])
    /\ UNCHANGED <<now, cachedTrackers, lastTrackerFetch, ft, lastStored, upstream, calls, env, indexer, h>>

\* lines 215-223: axios.get(jackettUrl) resolves with one of the feeds the
\* indexer can send; the body is parsed and merged
SjResolve(r, feeds) ==
    /\ pc[r] = "sj_await"
    /\ \E feed \in feeds :
        IF ParseThrows(feed)
        THEN SjCatch(r, [sj[r] EXCEPT !.dispatched[Len(sj[r].dispatched)].feed = feed])
        ELSE \E torrents \in { parseJackettResponse(feed) } :
             \E merged \in { MergeTorrents(sj[r].allTorrents, sj[r].seenGuids, torrents) } :
             LET n == Len(sj[r].dispatched)
             IN SjContinue(r, [sj[r] EXCEPT !.allTorrents = merged.all,
                                            !.seenGuids = merged.seen,
                                            !.dispatched[n].outcome = "ok",
                                            !.dispatched[n].feed = feed,
                                            !.dispatched[n].torrents = torrents],
                           sj[r].i + 1)
    /\ UNCHANGED <<now, cachedTrackers, lastTrackerFetch, ft, lastStored, upstream, calls, env, indexer, h>>

-----------------------------------------------------------------------------
(* normalizeString and isTorrentRelevant, server.js:249-317 *)

UpperCase == <<"A", "B", "C", "D", "E", "F", "G", "H", "I", "J", "K", "L", "M",
               "N", "O", "P", "Q", "R", "S", "T", "U", "V", "W", "X", "Y", "Z">>
LowerCase == <<"a", "b", "c", "d", "e", "f", "g", "h", "i", "j", "k", "l", "m",
               "n", "o", "p", "q", "r", "s", "t", "u", "v", "w", "x", "y", "z">>

IsUpper(ch) == \E i \in DOMAIN UpperCase : UpperCase[i] = ch
IsLower(ch) == \E i \in DOMAIN LowerCase : LowerCase[i] = ch
ToLower(ch) ==
    IF IsUpper(ch) THEN LowerCase[CHOOSE i \in DOMAIN UpperCase : UpperCase[i] = ch] ELSE ch

\* \w of a regular expression
IsWordChar(ch) == IsUpper(ch) \/ IsLower(ch) \/ IsDigit(ch) \/ ch = "_"

\* str.toLowerCase().replace(/[^a-z0-9\s]/g, '').trim()
normalizeString(chars) ==
    With([i \in DOMAIN chars |-> ToLower(chars[i])], LAMBDA lower :
         With(SelectSeqBy(lower, { ch \in Range(lower) :
                                     IsLower(ch) \/ IsDigit(ch) \/ IsSpace(ch) }),
              LAMBDA kept : Trim(kept)))

\* String.prototype.includes
Includes(hay, needle) ==
    \E i \in 0..(Len(hay) - Len(needle)) : SubSeq(hay, i + 1, i + Len(needle)) = needle

\* the places where /\b(19|20)\d{2}\b/ matches
YearMatches(chars) ==
    { i \in 1..(Len(chars) - 3) :
        /\ SubSeq(chars, i, i + 1) \in { <<"1", "9">>, <<"2", "0">> }
        /\ IsDigit(chars[i + 2]) /\ IsDigit(chars[i + 3])
        /\ (i = 1 \/ ~IsWordChar(chars[i - 1]))
        /\ (i + 3 = Len(chars) \/ ~IsWordChar(chars[i + 4])) }

\* lines 284-287: title.match(/\b(19|20)\d{2}\b/) and parseInt of the match
FirstYear(chars) ==
    With(YearMatches(chars), LAMBDA found :
        IF found = {} THEN Undef
        ELSE With(CHOOSE k \in found : \A m \in found : k <= m,
                  LAMBDA i : ParseInt(Str(SubSeq(chars, i, i + 3)))))

\* lines 281-289
TorrentYear_TitleFirst(torrent) ==
    IF YearMatches(torrent.title.s) # {} THEN FirstYear(torrent.title.s)
    ELSE IF Truthy(torrent.publishAt) THEN GetFullYear(torrent.publishAt)
    ELSE Undef
TorrentYear(torrent) ==
    IF Truthy(torrent.publishAt) THEN GetFullYear(torrent.publishAt)
    ELSE FirstYear(torrent.title.s)

\* line 270: [resolvedTitle, ...alternativeTitles].filter(Boolean).map(normalizeString)
allRelevantTitles(metadata) ==
    LET titles == <<metadata.resolvedTitle>> \o metadata.alternativeTitles
    IN { normalizeString(titles[i].s) : i \in { k \in DOMAIN titles : Truthy(titles[k]) } }

\* lines 269-278
TitleMatch(torrent, metadata) ==
    With(normalizeString(torrent.title.s), LAMBDA mine :
        \E ref \in allRelevantTitles(metadata) : Includes(mine, ref) \/ Includes(ref, mine))

Abs(n) == IF n < 0 THEN 0 - n ELSE n

\* lines 291-307
YearMatch(torrent, metadata) ==
    IF Truthy(metadata.resolvedYear)
    THEN With(TorrentYear(torrent), LAMBDA torrentYear :
            /\ Truthy(torrentYear)
            /\ Abs(metadata.resolvedYear.n - torrentYear.n) <= 1)
    ELSE TRUE

\* line 261: normalizeString(torrent.title) of a torrent without a title throws
RelevanceThrows(torrent) == ~IsStr(torrent.title)

\* isTorrentRelevant of a torrent it does not throw on
isTorrentRelevant_TitleOnly(torrent, metadata) == TitleMatch(torrent, metadata)
isTorrentRelevant(torrent, metadata) ==
    IF ~Truthy(metadata.resolvedTitle) /\ ~Truthy(metadata.resolvedYear)
    THEN TRUE
    ELSE TitleMatch(torrent, metadata) /\ YearMatch(torrent, metadata)

-----------------------------------------------------------------------------
(* The stream handler after the metadata, server.js:542-603 *)

\* getInfoHashFromMagnet, lines 62-65: the 40 hexadecimal characters that
\* follow "xt=urn:btih:", or null
IsHex(ch) == ch \in {"a", "b", "c", "d", "e", "f", "A", "B", "C", "D", "E", "F"} \/ IsDigit(ch)
getInfoHashFromMagnet_AnyLength(link) ==
    IF IsStr(link.btih) /\ link.btih.s # <<>> /\ \A i \in DOMAIN link.btih.s : IsHex(link.btih.s[i])
    THEN link.btih ELSE Undef
getInfoHashFromMagnet(link) ==
    With(link.btih, LAMBDA btih :
        IF IsStr(btih) /\ Len(btih.s) >= 40 /\ \A i \in 1..40 : IsHex(btih.s[i])
        THEN Str(SubSeq(btih.s, 1, 40))
        ELSE Undef)

\* lines 580-591: the stream of a torrent with an info-hash
Stream_DhtFirst(torrent, infoHash, trackers) ==
    [ name |-> "Jackett",
      title |-> <<torrent.title, torrent.seeders>>,
      infoHash |-> infoHash,
      sources |-> << <<"dht:", infoHash>> >>
                    \o [i \in 1..Len(trackers) |-> <<"tracker:", trackers[i]>>] ]
Stream(torrent, infoHash, trackers) ==
    [ name |-> "Jackett",
      title |-> <<torrent.title, torrent.seeders>>,
      infoHash |-> infoHash,
      sources |-> [i \in 1..Len(trackers) |-> <<"tracker:", trackers[i]>>]
                    \o << <<"dht:", infoHash>> >> ]

\* lines 572-592: map to streams, drop the torrents without info-hash
Streams(torrents, trackers) ==
    With(SelectSeqBy(torrents,
            { x \in Range(torrents) : Truthy(getInfoHashFromMagnet(x.link)) }),
         LAMBDA withHash :
            [i \in 1..Len(withHash) |->
                With(getInfoHashFromMagnet(withHash[i].link),
                     LAMBDA infoHash : Stream(withHash[i], infoHash, trackers))])

\* line 595
FinalStreams_NoLimit(streams, parsedMaxResults) == streams
FinalStreams(streams, parsedMaxResults) == Slice0(streams, parsedMaxResults)

\* lines 544-557: fetchTrackers has returned (an exception would go to the
\* catch block of line 599); searchJackett is called
StreamAfterTrackers(r) ==
    /\ pc[r] \in {"ft_ret", "ft_throw"}
    /\ IF pc[r] = "ft_throw"
       THEN /\ h' = [h EXCEPT ![r].response =
                        [status |-> 500, streams |-> <<>>, error |-> "fetchTrackers"],
                              ![r].sent = @ + 1]
            /\ pc' = [pc EXCEPT ![r] = "done"]
            /\ UNCHANGED sj
       ELSE /\ h' = [h EXCEPT ![r].trackers = ft[r].ret,
                              ![r].trackerOutcome = ft[r].outcome]
            /\ sj' = [sj EXCEPT ![r] =
                        [NoSearch EXCEPT
                           !.jackettHost = h[r].req.jackettHost,
                           !.jackettApiKey = h[r].req.jackettApiKey,
                           !.queries = Arr(h[r].jackettQueries),
                           !.year = h[r].resolvedMetadata.resolvedYear,
                           !.internalMaxResults = Num(JACKETT_FETCH_LIMIT),
                           !.filterBySeeders = h[r].parsedFilterBySeeders,
                           !.sortBy = h[r].req.sortBy]]
            /\ pc' = [pc EXCEPT ![r] = "sj_call"]
    /\ ft' = [ft EXCEPT ![r] = NoCall]
    /\ UNCHANGED <<now, cachedTrackers, lastTrackerFetch, lastStored, upstream, calls, env, indexer>>

\* line 562: the relevance filter runs when a title or a year is resolved
Filtering_OnlyWithTitle(metadata) == Truthy(metadata.resolvedTitle)
Filtering(metadata) == Truthy(metadata.resolvedTitle) \/ Truthy(metadata.resolvedYear)

\* lines 562-568: the torrents the relevance filter leaves, when it does not throw
RelevantTorrents_AlwaysMatched(torrents, metadata) ==
    SelectSeqBy(torrents,
       { x \in Range(torrents) :
           IsStr(x.title) /\ TitleMatch(x, metadata) /\ YearMatch(x, metadata) })
RelevantTorrents(torrents, metadata) ==
    IF Filtering(metadata)
    THEN SelectSeqBy(torrents, { x \in Range(torrents) : isTorrentRelevant(x, metadata) })
    ELSE torrents

\* lines 557-602: searchJackett has returned or thrown; the relevance filter,
\* the streams, the limit and the response
StreamRespond_Uncaught(r) ==
    /\ pc[r] \in {"sj_ret", "sj_throw"}
    /\ IF pc[r] = "sj_throw"
       THEN UNCHANGED h
       ELSE h' = [h EXCEPT ![r].response =
                     [status |-> 200,
                      streams |-> FinalStreams(Streams(RelevantTorrents(
                                     SelectSeqBy(sj[r].result,
                                        { x \in Range(sj[r].result) : IsStr(x.title) }),
                                     h[r].resolvedMetadata), h[r].trackers),
                                     h[r].parsedMaxResults),
                      error |-> ""],
                           ![r].sent = @ + 1]
    /\ pc' = [pc EXCEPT ![r] = "done"]
    /\ UNCHANGED <<now, cachedTrackers, lastTrackerFetch, ft, lastStored, upstream, calls, env, indexer, sj>>
StreamRespond(r) ==
    /\ pc[r] \in {"sj_ret", "sj_throw"}
    /\ LET metadata == h[r].resolvedMetadata
           torrents == sj[r].result
           filtering == Filtering(metadata)
       IN IF pc[r] = "sj_throw"
          THEN h' = [h EXCEPT ![r].response =
                        [status |-> 500, streams |-> <<>>, error |-> sj[r].error],
                              ![r].sent = @ + 1]
          ELSE IF filtering /\ \E i \in DOMAIN torrents : RelevanceThrows(torrents[i])
          THEN h' = [h EXCEPT ![r].response =
                        [status |-> 500, streams |-> <<>>, error |-> "TypeError"],
                              ![r].sent = @ + 1]
          ELSE \E relevant \in { RelevantTorrents(torrents, metadata) } :
               \E streams \in { Streams(relevant, h[r].trackers) } :
               \E final \in { FinalStreams(streams, h[r].parsedMaxResults) } :
                  h' = [h EXCEPT ![r].response =
                          [status |-> 200, streams |-> final, error |-> ""],
                                 ![r].sent = @ + 1]
    /\ pc' = [pc EXCEPT ![r] = "done"]
    /\ UNCHANGED <<now, cachedTrackers, lastTrackerFetch, ft, lastStored, upstream, calls, env, indexer, sj>>

\* The feeds the indexer answers a stream request with
BigFeed == Items([i \in 1..BigCount |-> BigItem(i)])
SmallFeed == Items(<<ItemA, ItemD, ItemHttp, ItemB>>)
UntitledFeed == Items(<<ItemA, ItemNoTitle>>)
StreamFeeds == { SmallFeed, BigFeed, UntitledFeed }

\* server.js:611-615: the app.listen callback calls fetchTrackers
StartupCall ==
    /\ pc["startup"] = "idle"
    /\ ft' = [ft EXCEPT !["startup"] = [NoCall EXCEPT !.url = env]]
    /\ pc' = [pc EXCEPT !["startup"] = "ft_call"]
    /\ UNCHANGED <<now, cachedTrackers, lastTrackerFetch, lastStored, upstream, calls, env, indexer, h, sj>>

-----------------------------------------------------------------------------
(* The callers of fetchTrackers, reduced to that call: the stream handler   *)
(* (server.js:544) and the app.listen callback (server.js:614).             *)

\* const trackers = await fetchTrackers(trackerGithubUrl)
TrackerCall(c) ==
    /\ pc[c] = "idle"
    /\ pc["startup"] \notin {"idle", "ft_call"}   \* the server listens: its callback has run
    /\ calls < MaxCalls
    /\ \E u \in Urls : ft' = [ft EXCEPT ![c] = [NoCall EXCEPT !.url = u]]
    /\ calls' = calls + 1
    /\ pc' = [pc EXCEPT ![c] = "ft_call"]
    /\ UNCHANGED <<now, cachedTrackers, lastTrackerFetch, lastStored, upstream, env, indexer, h, sj>>

\* the await of the call settles and the caller goes on
TrackerReturn(c) ==
    /\ pc[c] = "ft_ret"
    /\ pc' = [pc EXCEPT ![c] = "idle"]
    /\ ft' = [ft EXCEPT ![c] = NoCall]
    /\ UNCHANGED <<now, cachedTrackers, lastTrackerFetch, lastStored, upstream, calls, env, indexer, h, sj>>

InitShared ==
    /\ now = StartTime
    /\ cachedTrackers = <<>>
    /\ lastTrackerFetch = 0
    /\ ft = [c \in Callers |-> NoCall]
    /\ lastStored = [trackers |-> <<>>, at |-> 0]
    /\ upstream = 0
    /\ calls = 0
    /\ indexer = NoTable
    /\ h = [c \in Callers |-> NoHandler]

InitCommon ==
    /\ InitShared
    /\ pc = [c \in Callers |-> "idle"]
    /\ sj = [c \in Callers |-> NoSearch]

InitTrackers == InitCommon /\ env \in Urls

NextTrackers ==
    \/ Tick
    \/ StartupCall
    \/ \E c \in Requests : TrackerCall(c)
    \/ \E c \in Callers : FtNoUrl(c)
    \/ \E c \in Callers : FtCacheHit(c)
    \/ \E c \in Callers : FtRefreshStart(c)
    \/ \E c \in Callers : FtReject(c)
    \/ \E c \in Callers : FtResolve(c)
    \/ \E c \in Requests : TrackerReturn(c)

SpecTrackers == InitTrackers /\ [][NextTrackers]_vars

-----------------------------------------------------------------------------
(* One stream request from its arrival to its response, on a process        *)
(* started without TRACKER_GITHUB_URL.                                      *)

Init == InitCommon /\ env = ""

Next ==
    \/ StartupCall
    \/ \E c \in {"startup", "r1"} : FtNoUrl(c)
    \/ FtRefreshStart("r1")
    \/ FtReject("r1")
    \/ FtResolve("r1")
    \/ StreamReceive("r1", StreamInputs)
    \/ TmdbFindReject("r1")
    \/ TmdbFindResolve("r1")
    \/ TmdbAltReject("r1")
    \/ TmdbAltResolve("r1")
    \/ OmdbReject("r1")
    \/ OmdbResolve("r1")
    \/ StreamAfterTrackers("r1")
    \/ SjCall("r1")
    \/ SjReject("r1")
    \/ SjResolve("r1", StreamFeeds)
    \/ StreamRespond("r1")

Spec == Init /\ [][Next]_vars

\* The steps of the handler of request r after the arrival of the request:
\* the continuation of each await, run by the event loop when the awaited
\* call has returned or failed
\* The indexer's answers in SpecLive: the feeds of Spec but the largest
LiveFeeds == StreamFeeds \ {BigFeed}

\* One step of the handler of request r: a continuation that is ready runs
HandlerStep(r) ==
    \/ FtNoUrl(r)
    \/ FtRefreshStart(r)
    \/ FtReject(r)
    \/ FtResolve(r)
    \/ TmdbFindReject(r)
    \/ TmdbFindResolve(r)
    \/ TmdbAltReject(r)
    \/ TmdbAltResolve(r)
    \/ OmdbReject(r)
    \/ OmdbResolve(r)
    \/ StreamAfterTrackers(r)
    \/ SjCall(r)
    \/ SjReject(r)
    \/ SjResolve(r, LiveFeeds)
    \/ StreamRespond(r)

NextLive ==
    \/ StartupCall
    \/ FtNoUrl("startup")
    \/ StreamReceive("r1", StreamInputs)
    \/ HandlerStep("r1")

\* Every collaborator call returns or fails in the end and the event loop
\* runs every continuation that is ready
SpecLive == Init /\ [][NextLive]_vars /\ WF_vars(HandlerStep("r1"))

-----------------------------------------------------------------------------
(* The same request on a process started with TRACKER_GITHUB_URL: the       *)
(* startup fetch, the clock and the request share the tracker cache.        *)

WarmInputs == { DefaultInput, [DefaultInput EXCEPT !.trackerGithubUrl = ""] }
WarmFeeds == { SmallFeed }

InitWarm == InitCommon /\ env = TrackerListUrl

NextWarm ==
    \/ Tick
    \/ StartupCall
    \/ FtNoUrl("r1")
    \/ FtCacheHit("r1")
    \/ \E c \in {"startup", "r1"} : FtRefreshStart(c)
    \/ \E c \in {"startup", "r1"} : FtReject(c)
    \/ \E c \in {"startup", "r1"} : FtResolve(c)
    \/ StreamReceive("r1", WarmInputs)
    \/ TmdbFindReject("r1")
    \/ TmdbFindResolve("r1")
    \/ TmdbAltReject("r1")
    \/ TmdbAltResolve("r1")
    \/ OmdbReject("r1")
    \/ OmdbResolve("r1")
    \/ StreamAfterTrackers("r1")
    \/ SjCall("r1")
    \/ SjReject("r1")
    \/ SjResolve("r1", WarmFeeds)
    \/ StreamRespond("r1")

SpecWarm == InitWarm /\ [][NextWarm]_vars

-----------------------------------------------------------------------------
(* searchJackett alone, called with a config drawn from SearchConfigs *)

QueryA == Str(<<"M", "x">>)
QueryB == Str(<<"t", "t", "1">>)
QueryBlank == Str(<<" ">>)

RECURSIVE SeqsUpTo(_, _)
\* the sequences over S of length at most n
SeqsUpTo(S, n) ==
    IF n = 0 THEN { <<>> }
    ELSE LET shorter == SeqsUpTo(S, n - 1)
         IN shorter \cup { Append(q, x) : q \in shorter, x \in S }

QueryLists == { Arr(q) : q \in SeqsUpTo({QueryA, QueryB, QueryBlank}, MaxQueries) }

SearchConfigs ==
    { [NoSearch EXCEPT !.jackettHost = c[1], !.jackettApiKey = c[2], !.queries = qs,
                       !.year = y, !.internalMaxResults = Num(JACKETT_FETCH_LIMIT),
                       !.filterBySeeders = fs, !.sortBy = sb] :
        c \in { <<"http://jackett:9117/", "k">> },
        qs \in QueryLists, y \in {Undef, Num(1999)}, fs \in {0, 2},
        sb \in {"publishAt", "seeders"} }
    \cup
    { [NoSearch EXCEPT !.jackettHost = c[1], !.jackettApiKey = c[2], !.queries = qs] :
        c \in { <<"", "k">>, <<"http://jackett:9117/", "">> }, qs \in {Undef, Arr(<<QueryA>>)} }
    \cup
    { [NoSearch EXCEPT !.jackettHost = "http://jackett:9117/", !.jackettApiKey = "k"] }

\* The feeds the indexer answers with
SearchFeeds ==
    { NoItems, BadXml, OneItem(ItemB),
      Items(<<ItemA, ItemD, ItemHttp>>),
      Items(<<ItemB, ItemA2, ItemA>>),
      Items(<<ItemNoLink, ItemOneAttr>>),
      Items(<<ItemNoLink, ItemB>>) }

InitSearch ==
    /\ InitShared
    /\ env = ""
    /\ \E c \in SearchConfigs :
          /\ sj = [x \in Callers |-> IF x = "r1" THEN c ELSE NoSearch]
          /\ pc = [x \in Callers |-> IF x = "r1" THEN "sj_call" ELSE "idle"]

NextSearch ==
    \/ SjCall("r1")
    \/ SjReject("r1")
    \/ SjResolve("r1", SearchFeeds)

SpecSearch == InitSearch /\ [][NextSearch]_vars

-----------------------------------------------------------------------------
(* The relevance filter alone: the handler from the return of searchJackett *)

\* candidates that differ in title and date
RelItem(title, pubDate, n) ==
    Item(Str(title),
         Link("magnet:", Str(Hex(<<"1", "2", "3", "4", "5", "6", "7", "8", "9", "a", "B">>[n], 40))),
         Undef,
         SeedAttrs(NatChars(n), <<"0">>), pubDate, Str(NatChars(n)))

RelItems ==
    << RelItem(TitleMx1999, Undef, 1),
       RelItem(TitleMx1999, RawDate(TRUE, 2003, 7), 2),
       RelItem(TitleMx1999, RawDate(TRUE, 2000, 1), 3),
       RelItem(TitleMx1999, RawDate(FALSE, 0, 0), 4),
       RelItem(TitleMx2003, Undef, 5),
       RelItem(TitleMx, Undef, 6),
       RelItem(TitleMx, RawDate(TRUE, 1998, 300), 7),
       RelItem(<<"M">>, RawDate(TRUE, 1999, 2), 8),
       RelItem(<<"m", "-", "x", "!", " ", "x", "1", "9", "9", "9", " ", "1", "8", "9", "9",
                 " ", "2", "0", "0", "0", ",", "1", "9", "9", "9">>, Undef, 9),
       RelItem(TitleOther, RawDate(TRUE, 1999, 9), 10),
       RelItem(<<"!">>, Undef, 11) >>

\* what searchJackett returned: one candidate, all of them, or two of them
\* and one without title
RelResults ==
    { parseJackettResponse(Items(<<RelItems[i]>>)) : i \in DOMAIN RelItems }
    \cup { parseJackettResponse(Items(RelItems)),
           parseJackettResponse(Items(<<RelItems[1], ItemNoTitle, RelItems[2]>>)) }

\* what the metadata resolution can leave in resolvedMetadata
RelMetadata ==
    [ resolvedTitle : {Undef, Str(TitleMx), Str(<<"X">>)},
      resolvedYear : {Undef, NaN, Num(1999), Num(2001), Num(2004)},
      alternativeTitles : { <<>>, <<Str(TitleAlt)>> } ]

InitRelevance ==
    /\ now = StartTime
    /\ cachedTrackers = <<>>
    /\ lastTrackerFetch = 0
    /\ ft = [c \in Callers |-> NoCall]
    /\ lastStored = [trackers |-> <<>>, at |-> 0]
    /\ upstream = 0
    /\ calls = 0
    /\ env = ""
    /\ indexer = NoTable
    /\ pc = [c \in Callers |-> IF c = "r1" THEN "sj_ret" ELSE "idle"]
    /\ \E md \in RelMetadata, res \in RelResults :
          /\ h = [c \in Callers |->
                    IF c = "r1"
                    THEN [NoHandler EXCEPT !.req = DefaultInput,
                                           !.parsedMaxResults = 20,
                                           !.resolvedMetadata = md,
                                           !.jackettQueries = <<Str(IdImdb)>>]
                    ELSE NoHandler]
          /\ sj = [c \in Callers |->
                    IF c = "r1"
                    THEN [NoSearch EXCEPT !.jackettHost = DefaultInput.jackettHost,
                                          !.jackettApiKey = DefaultInput.jackettApiKey,
                                          !.queries = Arr(<<Str(IdImdb)>>),
                                          !.year = md.resolvedYear,
                                          !.internalMaxResults = Num(JACKETT_FETCH_LIMIT),
                                          !.i = 2, !.allTorrents = res, !.result = res]
                    ELSE NoSearch]

NextRelevance == StreamRespond("r1")

SpecRelevance == InitRelevance /\ [][NextRelevance]_vars

-----------------------------------------------------------------------------
(* Two stream requests that call searchJackett with the same queries in     *)
(* different order, against an indexer that answers by the query text alone *)

\* the feeds such an indexer has for a query text
TableFeeds ==
    { BadXml, OneItem(ItemB), OneItem(ItemNoTitle),
      Items(<<ItemA, ItemD, ItemHttp>>), Items(<<ItemB, ItemA2, ItemA>>) }

\* the query list of the first request: the title and the id, as line 539
\* leaves them, and the same with a blank between them
BaseQueries == { <<QueryA, QueryB>>, <<QueryA, QueryBlank, QueryB>> }

\* the orders a list can be put in
Reorderings(s) == { [i \in DOMAIN s |-> s[p[i]]] : p \in Permutations(DOMAIN s) }

\* what the metadata resolution left: nothing, or the title
PermuteMetadata == { Unresolved, [Unresolved EXCEPT !.resolvedTitle = QueryA] }

\* the limits of the two requests
PermuteLimits == { 1, 20 }

\* the handler and the searchJackett frame at line 557, for a list of queries
HandlerAt557(qs, md, limit, sortBy) ==
    [NoHandler EXCEPT !.req = [DefaultInput EXCEPT !.sortBy = sortBy],
                      !.parsedMaxResults = limit,
                      !.resolvedMetadata = md,
                      !.jackettQueries = qs]
SearchAt557(qs, md, sortBy) ==
    [NoSearch EXCEPT !.jackettHost = DefaultInput.jackettHost,
                     !.jackettApiKey = DefaultInput.jackettApiKey,
                     !.queries = Arr(qs),
                     !.year = md.resolvedYear,
                     !.internalMaxResults = Num(JACKETT_FETCH_LIMIT),
                     !.sortBy = sortBy]

InitPermute ==
    /\ now = StartTime
    /\ cachedTrackers = <<>>
    /\ lastTrackerFetch = 0
    /\ ft = [c \in Callers |-> NoCall]
    /\ lastStored = [trackers |-> <<>>, at |-> 0]
    /\ upstream = 0
    /\ calls = 0
    /\ env = ""
    /\ indexer \in [{QueryA, QueryB} -> TableFeeds]
    /\ pc = [c \in Callers |-> IF c \in Requests THEN "sj_call" ELSE "idle"]
    /\ \E qs \in BaseQueries, md \in PermuteMetadata, limit \in PermuteLimits,
          sortBy \in {"publishAt", "seeders"} :
        \E other \in Reorderings(qs) :
          /\ h = [c \in Callers |->
                    CASE c = "r1" -> HandlerAt557(qs, md, limit, sortBy)
                      [] c = "r2" -> HandlerAt557(other, md, limit, sortBy)
                      [] OTHER -> NoHandler]
          /\ sj = [c \in Callers |->
                    CASE c = "r1" -> SearchAt557(qs, md, sortBy)
                      [] c = "r2" -> SearchAt557(other, md, sortBy)
                      [] OTHER -> NoSearch]

\* line 215: axios.get(jackettUrl) resolves with the feed the indexer has
\* for the text of the query
SjAnswer(r) ==
    /\ pc[r] = "sj_await"
    /\ SjResolve(r, { indexer[sj[r].queries.a[sj[r].i]] })

NextPermute ==
    \/ \E r \in Requests : SjCall(r)
    \/ \E r \in Requests : SjAnswer(r)
    \/ \E r \in Requests : StreamRespond(r)

SpecPermute == InitPermute /\ [][NextPermute]_vars

-----------------------------------------------------------------------------
(* Claims *)

\* C1 (as stated): whatever maxResults the caller sends, a response carries
\* at most 20 streams.
C1_AtMostTwentyStreams ==
    \A r \in Requests : Len(h[r].response.streams) <= 20

RECURSIVE FlatTorrents(_)
\* the torrents the indexer answered with, in dispatch order
FlatTorrents(dispatched) ==
    IF dispatched = <<>> THEN <<>>
    ELSE FlatTorrents(SubSeq(dispatched, 1, Len(dispatched) - 1))
            \o dispatched[Len(dispatched)].torrents

\* the first place of guid g in a list of torrents
FirstPlace(flat, g) ==
    CHOOSE i \in DOMAIN flat : flat[i].guid = g /\ \A j \in 1..(i - 1) : flat[j].guid # g

\* C2: allTorrents holds exactly one record per guid the indexer answered
\* with, that record is the first one with this guid in dispatch order
\* (query order, then response order), and the records keep that order.
C2_FirstGuidWins ==
    \A r \in Requests :
        LET flat == FlatTorrents(sj[r].dispatched)
            all == sj[r].allTorrents
        IN /\ \A i, j \in DOMAIN all : i # j => all[i].guid # all[j].guid
           /\ { all[i].guid : i \in DOMAIN all } = { flat[i].guid : i \in DOMAIN flat }
           /\ \A i \in DOMAIN all : all[i] = flat[FirstPlace(flat, all[i].guid)]
           /\ \A i, j \in DOMAIN all :
                 i < j => FirstPlace(flat, all[i].guid) < FirstPlace(flat, all[j].guid)

\* C2 witness: the search is over, and a guid came back twice in one
\* response and again, with other fields, in the response of another query.
C2_Witness ==
    LET d == sj["r1"].dispatched IN
    /\ pc["r1"] = "sj_ret"
    /\ \E k1, k2 \in DOMAIN d :
          /\ k1 < k2
          /\ \E i \in DOMAIN d[k1].torrents, j \in DOMAIN d[k2].torrents :
                /\ d[k1].torrents[i].guid = d[k2].torrents[j].guid
                /\ d[k1].torrents[i] # d[k2].torrents[j]
          /\ \E i, j \in DOMAIN d[k1].torrents :
                i # j /\ d[k1].torrents[i].guid = d[k1].torrents[j].guid

\* the queries the loop of searchJackett does not skip, in order
NonBlankQueries(f) ==
    SelectSeqBy(f.queries.a, { q \in Range(f.queries.a) : ~BlankQuery(q) })

\* C3: a query that fails contributes nothing and stops nothing: searchJackett
\* throws only before its first request; when it returns, every non-blank
\* query has been dispatched, in order, and the result holds the torrents of
\* the queries that succeeded (the first of each guid, with enough seeders)
\* and nothing else.
C3_FailedQuerySkipped ==
    \A r \in Requests :
        LET d == sj[r].dispatched IN
        /\ pc[r] = "sj_throw" => d = <<>>
        /\ \A k \in DOMAIN d : d[k].outcome # "ok" => d[k].torrents = <<>>
        /\ pc[r] = "sj_ret" =>
              /\ [k \in DOMAIN d |-> d[k].params.q] = NonBlankQueries(sj[r])
              /\ \A k \in DOMAIN d : d[k].outcome \in {"ok", "failed"}
              /\ LET flat == FlatTorrents(d) IN
                 \A i \in DOMAIN flat :
                    (i = FirstPlace(flat, flat[i].guid)
                       /\ EnoughSeeders(flat[i], sj[r].filterBySeeders))
                    => flat[i] \in Range(sj[r].result)
              /\ \A x \in Range(sj[r].result) :
                    \E k \in DOMAIN d : d[k].outcome = "ok" /\ x \in Range(d[k].torrents)

\* C3 witness: searchJackett has returned torrents although a query before
\* the one that delivered them had failed.
C3_Witness ==
    LET d == sj["r1"].dispatched IN
    /\ pc["r1"] = "sj_ret"
    /\ sj["r1"].result # <<>>
    /\ \E k1, k2 \in DOMAIN d :
          k1 < k2 /\ d[k1].outcome = "failed" /\ d[k2].outcome = "ok" /\ d[k2].torrents # <<>>

\* C4 (as stated): two calls made within one TTL window cause at most one
\* upstream fetch, so no two fetches are in flight for calls less than one
\* TTL apart.
C4_OneFetchPerWindow ==
    \A c, d \in Callers :
        (c # d /\ pc[c] = "ft_await" /\ pc[d] = "ft_await")
        => Abs(ft[c].now - ft[d].now) >= TRACKER_CACHE_DURATION

\* C5 (as stated): at most one refresh that mutates the snapshot is in flight
\* at a time, so no refresh stores the snapshot after a refresh that was in
\* flight together with it has stored it.
C5_SingleWriter ==
    \A c \in Callers : ft[c].outcome = "ok" => ~ft[c].overlapped

\* C6: at every await boundary cachedTrackers and lastTrackerFetch are the
\* list and the timestamp of one and the same successful refresh, the last
\* one, or the initial pair.
C6_SnapshotNotTorn ==
    /\ cachedTrackers = lastStored.trackers
    /\ lastTrackerFetch = lastStored.at

\* C6 witness: a caller was served the stored list while a refresh of
\* another caller is in flight.
C6_Witness ==
    /\ cachedTrackers # <<>>
    /\ \E c, d \in Callers :
          /\ pc[c] = "ft_await"
          /\ pc[d] = "ft_ret" /\ ft[d].outcome = "hit" /\ ft[d].ret = cachedTrackers

\* C7: a refresh that fails makes fetchTrackers return, not throw, and return
\* the stored snapshot (the empty list when nothing is stored); the stream
\* handler then goes on to searchJackett with that list and has sent nothing.
C7_FailedRefreshReturns ==
    [][ /\ \A c \in Callers :
             (pc[c] = "ft_await" /\ ft'[c].outcome = "failed")
             => (pc'[c] = "ft_ret" /\ ft'[c].ret = cachedTrackers)
        /\ \A r \in Requests :
             (pc[r] = "ft_ret" /\ pc'[r] # "ft_ret")
             => (pc'[r] = "sj_call" /\ h'[r].trackers = ft[r].ret /\ h'[r].sent = 0)
      ]_vars

\* C7 witness: a request whose refresh failed while a snapshot was stored got
\* a normal response that uses the stored trackers.
C7_Witness ==
    /\ h["r1"].trackerOutcome = "failed"
    /\ h["r1"].trackers # <<>>
    /\ h["r1"].response.status = 200
    /\ h["r1"].response.streams # <<>>

\* C8: the step in which a refresh fails changes neither cachedTrackers nor
\* lastTrackerFetch.
C8_FailureKeepsSnapshot ==
    [][ \A c \in Callers :
           (pc[c] = "ft_await" /\ ft'[c].outcome = "failed")
           => (cachedTrackers' = cachedTrackers /\ lastTrackerFetch' = lastTrackerFetch)
      ]_vars

\* C8 witness: a refresh has failed and a non-empty snapshot is still stored.
C8_Witness ==
    \E c \in Callers :
        pc[c] = "ft_ret" /\ ft[c].outcome = "failed" /\ cachedTrackers # <<>>

\* C9: a call without URL returns the empty list in its first step, issues
\* no upstream fetch and leaves cachedTrackers and lastTrackerFetch alone.
C9_NoUrlReturnsEmpty ==
    [][ \A c \in Callers :
           (pc[c] = "ft_call" /\ ft[c].url = "" /\ pc'[c] # "ft_call")
           => /\ pc'[c] = "ft_ret"
              /\ ft'[c].ret = <<>>
              /\ upstream' = upstream
              /\ cachedTrackers' = cachedTrackers
              /\ lastTrackerFetch' = lastTrackerFetch
      ]_vars

\* C9 witness: a call without URL has returned the empty list while a fresh,
\* non-empty snapshot is stored.
C9_Witness ==
    \E c \in Callers :
        /\ pc[c] = "ft_ret" /\ ft[c].outcome = "nourl" /\ ft[c].ret = <<>>
        /\ cachedTrackers # <<>>
        /\ now - lastTrackerFetch < TRACKER_CACHE_DURATION

\* C10: a request whose id does not start with "tt" issues no metadata
\* provider call and its metadata stays unresolved.
C10_ProvidersOnlyForTt ==
    \A r \in Requests :
        (pc[r] # "idle" /\ ~StartsWith(h[r].req.id, <<"t", "t">>))
        => /\ h[r].providerCalls = <<>>
           /\ pc[r] \notin {"tmdb_find", "tmdb_alt", "omdb"}
           /\ h[r].resolvedMetadata = Unresolved

\* C10 witness: a request with another id and both API keys has been
\* answered.
C10_Witness ==
    /\ pc["r1"] = "done"
    /\ ~StartsWith(h["r1"].req.id, <<"t", "t">>)
    /\ h["r1"].req.tmdbApiKey # "" /\ h["r1"].req.omdbApiKey # ""
    /\ h["r1"].response.status = 200

\* the metadata resolution of request r is over
Resolved(r) == pc[r] \notin {"idle", "tmdb_find", "tmdb_alt", "omdb"}

\* C11: OMDb is called at most once and as the last provider call, after the
\* TMDb find call when a TMDb key is configured, and only while no title is
\* resolved; a request whose find call gave a title never calls OMDb.
C11_OmdbOnlyAsFallback ==
    \A r \in Requests :
        LET issued == h[r].providerCalls
            results == h[r].providerResults
        IN /\ \A k \in DOMAIN issued : issued[k] = "omdb" =>
                 /\ k = Len(issued)
                 /\ \A j \in 1..(k - 1) : results[j] # "title"
                 /\ h[r].req.tmdbApiKey # "" => (k > 1 /\ issued[1] = "tmdb_find")
           /\ pc[r] = "omdb" => ~Truthy(h[r].resolvedMetadata.resolvedTitle)
           /\ (results # <<>> /\ issued[1] = "tmdb_find" /\ results[1] = "title")
                 => "omdb" \notin Range(issued)

\* C11 witness: a request with both keys was answered; TMDb gave it a title,
\* the alternative titles failed, and OMDb was not called.
C11_Witness ==
    /\ pc["r1"] = "done"
    /\ h["r1"].req.tmdbApiKey # "" /\ h["r1"].req.omdbApiKey # ""
    /\ h["r1"].providerCalls = <<"tmdb_find", "tmdb_alt">>
    /\ h["r1"].providerResults = <<"title", "failed">>

\* every provider call of request r failed or gave no result
NothingFound(r) == \A k \in DOMAIN h[r].providerResults : h[r].providerResults[k] \in {"failed", "none"}

\* C12: no response is sent before the resolution is over and searchJackett
\* has been called, whatever the provider calls did; when the resolution is
\* over and every provider call failed or found nothing (or
\* none was made), the metadata is unresolved and the id is the only query,
\* also of the search that is then dispatched.
C12_UnresolvedFallsBackToId ==
    \A r \in Requests :
        /\ h[r].sent > 0 => (Resolved(r) /\ sj[r] # NoSearch)
        /\ (Resolved(r) /\ NothingFound(r)) =>
              /\ Len(h[r].providerResults) = Len(h[r].providerCalls)
              /\ h[r].resolvedMetadata = Unresolved
              /\ NonBlank(Str(h[r].req.id)) => h[r].jackettQueries = <<Str(h[r].req.id)>>
              /\ sj[r] # NoSearch => sj[r].queries = Arr(h[r].jackettQueries)
              /\ \A k \in DOMAIN sj[r].dispatched :
                    sj[r].dispatched[k].params.q = Str(h[r].req.id)

\* C12 witness: both providers were called and failed, and the search for the
\* id has been answered.
C12_Witness ==
    /\ pc["r1"] = "done"
    /\ h["r1"].providerCalls = <<"tmdb_find", "omdb">>
    /\ h["r1"].providerResults = <<"failed", "failed">>
    /\ Len(sj["r1"].dispatched) = 1
    /\ h["r1"].response.status = 200 /\ h["r1"].response.streams # <<>>

\* C13: the step in which the alternative-titles call fails keeps the
\* resolved title and year, leaves alternativeTitles empty, goes on to the
\* tracker fetch without a call to OMDb, and the title is among the queries.
C13_AltTitlesBestEffort ==
    [][ \A r \in Requests :
           (pc[r] = "tmdb_alt" /\ pc'[r] # "tmdb_alt"
              /\ h'[r].providerResults[Len(h'[r].providerResults)] = "failed")
           => /\ Truthy(h[r].resolvedMetadata.resolvedTitle)
              /\ h'[r].resolvedMetadata = h[r].resolvedMetadata
              /\ h'[r].resolvedMetadata.alternativeTitles = <<>>
              /\ pc'[r] = "ft_call"
              /\ h'[r].providerCalls = h[r].providerCalls
              /\ h[r].resolvedMetadata.resolvedTitle \in Range(h'[r].jackettQueries)
      ]_vars

\* C13 witness: a request with an OMDb key was answered with streams found
\* under the title TMDb resolved, after the alternative-titles call failed.
C13_Witness ==
    /\ pc["r1"] = "done"
    /\ h["r1"].req.omdbApiKey # ""
    /\ h["r1"].providerResults = <<"title", "failed">>
    /\ h["r1"].resolvedMetadata.alternativeTitles = <<>>
    /\ sj["r1"].dispatched # <<>>
    /\ sj["r1"].dispatched[1].params.q = h["r1"].resolvedMetadata.resolvedTitle
    /\ h["r1"].response.status = 200 /\ h["r1"].response.streams # <<>>

\* stream st is the stream of torrent x
StreamOf(st, x) ==
    /\ st.title = <<x.title, x.seeders>>
    /\ st.infoHash = getInfoHashFromMagnet(x.link)

\* the merged candidates of request r with enough seeders and an info-hash
Playable(r) ==
    LET all == sj[r].allTorrents IN
    { i \in DOMAIN all :
        /\ IsNum(all[i].seeders) /\ all[i].seeders.n >= h[r].parsedFilterBySeeders
        /\ Truthy(getInfoHashFromMagnet(all[i].link)) }

\* C14: a request whose metadata is unresolved (no title, no year) and whose
\* search returned is answered with status 200; its streams are streams of
\* candidates with enough seeders and an info-hash, all of them when they fit
\* into the limit, and as many as the limit allows otherwise.
C14_UnresolvedPassesThrough ==
    \A r \in Requests :
        (/\ pc[r] = "done" /\ sj[r] # NoSearch /\ sj[r].error = ""
         /\ ~Truthy(h[r].resolvedMetadata.resolvedTitle)
         /\ ~Truthy(h[r].resolvedMetadata.resolvedYear))
        => LET all == sj[r].allTorrents
               streams == h[r].response.streams
               limit == h[r].parsedMaxResults
               playable == Playable(r)
               n == Cardinality(playable)
           IN /\ h[r].response.status = 200
              /\ limit >= 0 => Len(streams) = Min(n, limit)
              /\ \A k \in DOMAIN streams : \E i \in playable : StreamOf(streams[k], all[i])
              /\ n <= limit => \A i \in playable :
                                  \E k \in DOMAIN streams : StreamOf(streams[k], all[i])

\* C14 witness: both providers failed, and the answer holds a stream of a
\* candidate without title next to the stream of a candidate with a title.
C14_Witness ==
    /\ pc["r1"] = "done"
    /\ h["r1"].providerResults = <<"failed", "failed">>
    /\ h["r1"].response.status = 200
    /\ Len(h["r1"].response.streams) = 2
    /\ \E k \in DOMAIN h["r1"].response.streams :
          h["r1"].response.streams[k].title[1] = Undef

\* C15: a request that reaches searchJackett without indexer host, without
\* API key or with an empty list of queries is answered once, with status
\* 500, an error message and an empty list of streams, and no indexer
\* request is made for it.
C15_InvalidConfigIsFatal ==
    \A r \in Requests :
        (/\ pc[r] = "done"
         /\ \/ h[r].req.jackettHost = ""
            \/ h[r].req.jackettApiKey = ""
            \/ h[r].jackettQueries = <<>>)
        => /\ h[r].response.status = 500
           /\ h[r].response.error # ""
           /\ h[r].response.streams = <<>>
           /\ h[r].sent = 1
           /\ sj[r].dispatched = <<>>

\* C15 witness: a request whose id is blank, so that no query is left, has
\* been answered.
C15_Witness ==
    /\ pc["r1"] = "done"
    /\ h["r1"].req.jackettHost # "" /\ h["r1"].req.jackettApiKey # ""
    /\ h["r1"].jackettQueries = <<>>
    /\ h["r1"].response.error = "Queries must be a non-empty array."

\* C16 (as stated): a request of which at least one indexer query succeeded
\* is answered with status 200.
C16_PartialSuccessAnswered ==
    \A r \in Requests :
        (/\ pc[r] = "done"
         /\ \E k \in DOMAIN sj[r].dispatched : sj[r].dispatched[k].outcome = "ok")
        => h[r].response.status = 200

\* what a stream shows of its torrent
Shown(torrents) ==
    [i \in DOMAIN torrents |->
       [title |-> <<torrents[i].title, torrents[i].seeders>>,
        infoHash |-> getInfoHashFromMagnet(torrents[i].link)]]

\* the same of the streams of a response
ShownStreams(streams) ==
    [i \in DOMAIN streams |-> [title |-> streams[i].title, infoHash |-> streams[i].infoHash]]

\* the reference titles of the metadata, normalized
ReferenceTitles(md) ==
    { normalizeString(t.s) :
        t \in { x \in {md.resolvedTitle} \cup Range(md.alternativeTitles) : Truthy(x) } }

\* one sequence of characters occurs in the other
Contained(a, b) ==
    \E i \in 0..(Len(b) - Len(a)) : \A k \in 1..Len(a) : b[i + k] = a[k]

\* a candidate the claim keeps: title match in either direction, and the
\* year within one when a year is resolved
Kept(torrent, md) ==
    /\ \E ref \in ReferenceTitles(md) :
          \/ Contained(ref, normalizeString(torrent.title.s))
          \/ Contained(normalizeString(torrent.title.s), ref)
    /\ \/ ~Truthy(md.resolvedYear)
       \/ /\ Truthy(TorrentYear(torrent))
          /\ md.resolvedYear.n - TorrentYear(torrent).n \in {-1, 0, 1}

\* C17: when a title or a year is resolved and the filter does not fail, the
\* streams of the response are the streams of exactly the candidates with
\* titleMatch and yearMatch, in the order searchJackett returned them.
C17_KeptIffTitleAndYear ==
    \A r \in Requests :
        (/\ pc[r] = "done" /\ h[r].response.status = 200
         /\ Truthy(h[r].resolvedMetadata.resolvedTitle) \/ Truthy(h[r].resolvedMetadata.resolvedYear))
        => ShownStreams(h[r].response.streams) =
             Shown(SelectSeqBy(sj[r].result,
                     { x \in Range(sj[r].result) : Kept(x, h[r].resolvedMetadata) }))

\* C17 witness: of several candidates with a matching title, the answer holds
\* some and lacks others, among them one without any discoverable year.
C17_Witness ==
    LET res == sj["r1"].result
        md == h["r1"].resolvedMetadata
    IN /\ pc["r1"] = "done" /\ h["r1"].response.status = 200
       /\ Truthy(md.resolvedTitle) /\ Truthy(md.resolvedYear)
       /\ h["r1"].response.streams # <<>>
       /\ Len(h["r1"].response.streams) < Len(res)
       /\ \E i \in DOMAIN res :
             /\ res[i].publishAt = Undef
             /\ res[i].title = md.resolvedTitle
             /\ \A k \in DOMAIN h["r1"].response.streams :
                   h["r1"].response.streams[k].infoHash # getInfoHashFromMagnet(res[i].link)

\* a year token starts at place i: 19 or 20, two digits, word boundaries
YearTokenAt(chars, i) ==
    /\ i >= 1 /\ i + 3 <= Len(chars)
    /\ <<chars[i], chars[i + 1]>> \in { <<"1", "9">>, <<"2", "0">> }
    /\ IsDigit(chars[i + 2]) /\ IsDigit(chars[i + 3])
    /\ i > 1 => ~IsWordChar(chars[i - 1])
    /\ i + 3 < Len(chars) => ~IsWordChar(chars[i + 4])

\* C18: the torrentYear of a candidate with a published date is the year of
\* that date, whatever its title says; without a published date it is the
\* first year token of the raw title, and undefined when there is none.
C18_TorrentYearPrefersDate ==
    \A r \in Requests : \A x \in Range(sj[r].result) :
        IsStr(x.title) =>
            IF x.publishAt # Undef
            THEN TorrentYear(x) = GetFullYear(x.publishAt)
            ELSE IF \E i \in DOMAIN x.title.s : YearTokenAt(x.title.s, i)
            THEN \E i \in DOMAIN x.title.s :
                    /\ YearTokenAt(x.title.s, i)
                    /\ \A j \in 1..(i - 1) : ~YearTokenAt(x.title.s, j)
                    /\ TorrentYear(x) = Num(DigitsValue(SubSeq(x.title.s, i, i + 3), 0))
            ELSE TorrentYear(x) = Undef

\* C18 witness: the filter has run over a candidate whose title names one
\* year and whose date lies in another, and over a dateless candidate whose
\* first year token is not the first four digits of its title.
C18_Witness ==
    /\ pc["r1"] = "done" /\ h["r1"].response.status = 200
    /\ Truthy(h["r1"].resolvedMetadata.resolvedYear)
    /\ \E x \in Range(sj["r1"].result) :
          /\ x.publishAt # Undef /\ IsNum(GetFullYear(x.publishAt))
          /\ \E i \in DOMAIN x.title.s :
                /\ YearTokenAt(x.title.s, i)
                /\ Num(DigitsValue(SubSeq(x.title.s, i, i + 3), 0)) # GetFullYear(x.publishAt)
    /\ \E x \in Range(sj["r1"].result) :
          /\ x.publishAt = Undef
          /\ \E i, j \in DOMAIN x.title.s :
                i < j /\ YearTokenAt(x.title.s, j) /\ ~YearTokenAt(x.title.s, i)
                /\ i + 3 <= Len(x.title.s) /\ \A k \in i..(i + 3) : IsDigit(x.title.s[k])

\* C19 (as stated): every candidate whose title contains the resolved title
\* and a year token equal to the resolved year has a stream in the response,
\* whatever its published date and seeders are.
C19_TitleAndYearTokenKept ==
    \A r \in Requests :
        LET md == h[r].resolvedMetadata IN
        (/\ pc[r] = "done" /\ h[r].response.status = 200
         /\ IsStr(md.resolvedTitle) /\ IsNum(md.resolvedYear))
        => \A x \in Range(sj[r].result) :
              (/\ Contained(md.resolvedTitle.s, x.title.s)
               /\ \E i \in DOMAIN x.title.s :
                     /\ YearTokenAt(x.title.s, i)
                     /\ Num(DigitsValue(SubSeq(x.title.s, i, i + 3), 0)) = md.resolvedYear)
              => \E k \in DOMAIN h[r].response.streams :
                    StreamOf(h[r].response.streams[k], x)

\* C20: every stream of a response is the stream of a candidate whose seeders
\* count is a number not below the minimum of the request, and the result of
\* searchJackett holds exactly the merged candidates with such a count.
C20_SeedersFilter ==
    \A r \in Requests :
        LET all == sj[r].allTorrents
            least == h[r].parsedFilterBySeeders
        IN /\ \A k \in DOMAIN h[r].response.streams :
                 LET st == h[r].response.streams[k] IN
                 /\ IsNum(st.title[2]) /\ st.title[2].n >= least
                 /\ \E i \in DOMAIN all :
                       StreamOf(st, all[i]) /\ all[i].seeders.n >= least
           /\ pc[r] \in {"sj_ret", "done"} =>
                 \A i \in DOMAIN all :
                    (IsNum(all[i].seeders) /\ all[i].seeders.n >= least)
                    <=> all[i] \in Range(sj[r].result)

\* C20 witness: a request with minimum 2 has been answered; a candidate with
\* exactly 2 seeders has a stream, and a candidate with an info-hash and
\* fewer seeders has none.
C20_Witness ==
    LET all == sj["r1"].allTorrents
        streams == h["r1"].response.streams
    IN /\ pc["r1"] = "done" /\ h["r1"].response.status = 200
       /\ h["r1"].parsedFilterBySeeders = 2
       /\ \E i \in DOMAIN all :
             all[i].seeders = Num(2) /\ \E k \in DOMAIN streams : StreamOf(streams[k], all[i])
       /\ \E i \in DOMAIN all :
             /\ IsNum(all[i].seeders) /\ all[i].seeders.n < 2
             /\ Truthy(getInfoHashFromMagnet(all[i].link))
             /\ \A k \in DOMAIN streams : ~StreamOf(streams[k], all[i])

\* the key the ranking goes by: the seeders count, or the published
\* timestamp with 0 for a candidate without a readable date
RankKey(torrent, sortBy) ==
    IF sortBy = "seeders" THEN torrent.seeders.n
    ELSE IF torrent.publishAt = Undef \/ ~IsNum(torrent.publishAt.time) THEN 0
    ELSE torrent.publishAt.time.n

RECURSIVE IsSubseq(_, _)
\* a is b with some elements left out
IsSubseq(a, b) ==
    IF a = <<>> THEN TRUE
    ELSE IF b = <<>> THEN FALSE
    ELSE IF Head(a) = Head(b) THEN IsSubseq(Tail(a), Tail(b))
    ELSE IsSubseq(a, Tail(b))

\* C21: what searchJackett returns is in non-increasing order of the seeders
\* count when sortBy is seeders and of the published timestamp (0 when
\* missing) otherwise; the streams of the response are streams of returned
\* candidates in that same order, so with sortBy = seeders their seeders
\* counts do not increase.
C21_RankingOrderKept ==
    \A r \in Requests :
        LET result == sj[r].result
            streams == h[r].response.streams
        IN /\ \A i, j \in DOMAIN result :
                 i < j => RankKey(result[i], sj[r].sortBy) >= RankKey(result[j], sj[r].sortBy)
           /\ IsSubseq(ShownStreams(streams), Shown(result))
           /\ sj[r].sortBy = "seeders" =>
                 \A i, j \in DOMAIN streams : i < j => streams[i].title[2].n >= streams[j].title[2].n

\* C21 witness: a request sorted by seeders, with resolved metadata, was
\* answered with fewer streams than candidates returned, and the ranking is
\* not the order in which the indexer delivered them.
C21_Witness ==
    /\ pc["r1"] = "done" /\ h["r1"].response.status = 200
    /\ h["r1"].req.sortBy = "seeders"
    /\ Filtering(h["r1"].resolvedMetadata)
    /\ Len(h["r1"].response.streams) \in 2..(Len(sj["r1"].result) - 1)
    /\ sj["r1"].result[1] # sj["r1"].allTorrents[1]
    /\ h["r1"].response.streams[1].title[2] # h["r1"].response.streams[Len(h["r1"].response.streams)].title[2]

\* the characters of [a-fA-F0-9]
HexChars ==
    { "0", "1", "2", "3", "4", "5", "6", "7", "8", "9",
      "a", "b", "c", "d", "e", "f", "A", "B", "C", "D", "E", "F" }

\* what follows "xt=urn:btih:" in the link starts with 40 hexadecimal characters
HasBtih40(link) ==
    /\ link.btih # Undef
    /\ Len(link.btih.s) >= 40
    /\ \A i \in 1..40 : link.btih.s[i] \in HexChars

\* C22: the infoHash of every stream is 40 hexadecimal characters, the very
\* 40 characters that follow "xt=urn:btih:" in the link of its candidate; a
\* candidate without such 40 characters has no stream, and a request whose
\* search returned such a candidate is still answered with status 200 unless
\* the relevance filter itself fails.
C22_InfoHashFromMagnet ==
    \A r \in Requests :
        LET result == sj[r].result
            streams == h[r].response.streams
        IN /\ \A k \in DOMAIN streams :
                 /\ IsStr(streams[k].infoHash)
                 /\ Len(streams[k].infoHash.s) = 40
                 /\ \A i \in 1..40 : streams[k].infoHash.s[i] \in HexChars
                 /\ \E x \in Range(result) :
                       /\ HasBtih40(x.link)
                       /\ streams[k].title = <<x.title, x.seeders>>
                       /\ streams[k].infoHash.s = SubSeq(x.link.btih.s, 1, 40)
           /\ Len(streams) <= Cardinality({ i \in DOMAIN result : HasBtih40(result[i].link) })
           /\ (/\ pc[r] = "done" /\ sj[r].error = "" /\ sj[r] # NoSearch
               /\ ~(Filtering(h[r].resolvedMetadata) /\ \E x \in Range(result) : x.title = Undef))
              => h[r].response.status = 200

\* C22 witness: the search returned a candidate with 39 hexadecimal
\* characters and one with 41; the answer has status 200, no stream for the
\* first and a stream with the first 40 characters for the second.
C22_Witness ==
    LET result == sj["r1"].result
        streams == h["r1"].response.streams
    IN /\ pc["r1"] = "done" /\ h["r1"].response.status = 200
       /\ \E x \in Range(result) :
             /\ x.link.btih # Undef /\ Len(x.link.btih.s) = 39
             /\ \A k \in DOMAIN streams : streams[k].title # <<x.title, x.seeders>>
       /\ \E x \in Range(result) :
             /\ x.link.btih # Undef /\ Len(x.link.btih.s) = 41
             /\ \E k \in DOMAIN streams : streams[k].infoHash.s = SubSeq(x.link.btih.s, 1, 40)

\* C23: the sources of every stream are one tracker entry per tracker the
\* request got from fetchTrackers, in the order of that list, and then one
\* DHT entry with the stream's infoHash, which is the only DHT entry; a
\* request without tracker URL has the DHT entry alone.
C23_SourcesShape ==
    \A r \in Requests :
        LET trackers == h[r].trackers
            streams == h[r].response.streams
        IN /\ \A k \in DOMAIN streams :
                 LET sources == streams[k].sources IN
                 /\ Len(sources) = Len(trackers) + 1
                 /\ \A i \in 1..Len(trackers) : sources[i] = <<"tracker:", trackers[i]>>
                 /\ sources[Len(sources)] = <<"dht:", streams[k].infoHash>>
                 /\ \A i \in DOMAIN sources : sources[i][1] = "dht:" => i = Len(sources)
           /\ (streams # <<>> /\ h[r].req.trackerGithubUrl = "") =>
                 \A k \in DOMAIN streams : Len(streams[k].sources) = 1

\* C23 witness: a request that got two trackers has been answered with
\* streams.
C23_Witness ==
    /\ pc["r1"] = "done"
    /\ Len(h["r1"].trackers) = 2
    /\ h["r1"].trackers[1] # h["r1"].trackers[2]
    /\ h["r1"].response.streams # <<>>

\* the link of a feed item: its magnetUri, or else its link
ItemLink(item) == IF item.magnetUri # Undef THEN item.magnetUri ELSE item.link

\* the items of a feed that carry a magnet link
MagnetItems(feed) ==
    { i \in DOMAIN ItemList(feed) :
        ItemLink(ItemList(feed)[i]) # Undef /\ ItemLink(ItemList(feed)[i]).scheme = "magnet:" }

\* C24: every candidate parseJackettResponse returned, and so every candidate
\* searchJackett merged or returned, has a link that starts with "magnet:";
\* a feed of well-formed XML whose items have their attributes in a list is
\* parsed without failure whatever links its items have, and gives one
\* candidate per item with a magnet link.
C24_OnlyMagnetRecords ==
    \A r \in Requests :
        LET d == sj[r].dispatched IN
        /\ \A x \in Range(sj[r].allTorrents) \cup Range(sj[r].result) \cup Range(FlatTorrents(d)) :
              x.link # Undef /\ x.link.scheme = "magnet:"
        /\ \A k \in DOMAIN d :
              (/\ d[k].feed # Undef /\ d[k].feed # BadXml
               /\ \A i \in DOMAIN ItemList(d[k].feed) : ItemList(d[k].feed)[i].attr.t # "obj")
              => /\ d[k].outcome = "ok"
                 /\ Len(d[k].torrents) = Cardinality(MagnetItems(d[k].feed))

\* C24 witness: searchJackett has returned candidates after one feed with an
\* item that has only an HTTP link and another feed with an item without any
\* link, each next to an item with a magnet link.
C24_Witness ==
    LET d == sj["r1"].dispatched
        Has(k, scheme) ==
            /\ d[k].outcome = "ok" /\ d[k].torrents # <<>>
            /\ \E i \in DOMAIN ItemList(d[k].feed) :
                  LET l == ItemLink(ItemList(d[k].feed)[i]) IN
                  IF scheme = "" THEN l = Undef ELSE l # Undef /\ l.scheme = scheme
    IN /\ pc["r1"] = "sj_ret"
       /\ sj["r1"].result # <<>>
       /\ \E k1, k2 \in DOMAIN d : Has(k1, "http://") /\ Has(k2, "")

\* C25 (as stated): two requests that differ only in the order of their
\* queries, answered by an indexer that goes by the query text alone, get
\* the same list of streams: same streams, same fields, same order.
C25_QueryOrderIrrelevant ==
    (pc["r1"] = "done" /\ pc["r2"] = "done")
    => h["r1"].response.streams = h["r2"].response.streams

Passing(r) ==
    LET md == h[r].resolvedMetadata IN
    SelectSeqBy(sj[r].result,
       { x \in Range(sj[r].result) :
           /\ HasBtih40(x.link)
           /\ (Truthy(md.resolvedTitle) \/ Truthy(md.resolvedYear)) => Kept(x, md) })

\* C27: a request with a maxResults from 1 to 20 that is answered with
\* status 200 gets the streams of the first min(maxResults, n) of the n
\* candidates that pass the seeders filter, the relevance filter and the
\* info-hash extraction, in ranking order.
C27_LimitAppliedLast ==
    \A r \in Requests :
        LET m == ParseIntChars(h[r].req.maxResults) IN
        (/\ pc[r] = "done" /\ h[r].response.status = 200
         /\ IsNum(m) /\ m.n \in 1..20)
        => LET passing == Passing(r)
               n == Len(passing)
           IN /\ Len(h[r].response.streams) = Min(m.n, n)
              /\ ShownStreams(h[r].response.streams) = Shown(SubSeq(passing, 1, Min(m.n, n)))

\* C27 witness: a request with maxResults = 2 got two streams, and between
\* their candidates the ranking holds a candidate without info-hash.
C27_Witness ==
    LET result == sj["r1"].result
        streams == h["r1"].response.streams
    IN /\ pc["r1"] = "done" /\ h["r1"].response.status = 200
       /\ h["r1"].req.maxResults = <<"2">>
       /\ Len(streams) = 2
       /\ \E i, j, k \in DOMAIN result :
             /\ i < j /\ j < k
             /\ StreamOf(streams[1], result[i])
             /\ ~HasBtih40(result[j].link)
             /\ StreamOf(streams[2], result[k])

\* C28 (as stated): no step lowers lastTrackerFetch, and no refresh stores
\* its result over the snapshot of a refresh that started later than itself.
C28_SnapshotNeverGoesBack ==
    [][ /\ lastTrackerFetch' >= lastTrackerFetch
        /\ \A c \in Callers :
              (pc[c] = "ft_await" /\ ft'[c].outcome = "ok") => ft[c].now >= lastStored.at
      ]_vars

\* C29: a request sends at most one response and none before its handler is
\* over; a response is a success with a list of streams and no error or an
\* error with status 500, a message and no streams; a response sent is not
\* sent again or changed; and with every collaborator call returning or
\* failing in the end, every request that arrived is answered.
C29_ExactlyOneResponse ==
    /\ [](\A r \in Requests :
            /\ h[r].sent = (IF pc[r] = "done" THEN 1 ELSE 0)
            /\ h[r].sent = 0 => h[r].response = NoResponse
            /\ h[r].sent = 1 =>
                  \/ /\ h[r].response.status = 200
                     /\ h[r].response.error = ""
                  \/ /\ h[r].response.status = 500
                     /\ h[r].response.error # ""
                     /\ h[r].response.streams = <<>>)
    /\ [][\A r \in Requests : h[r].sent = 1 => h'[r] = h[r]]_vars
    /\ \A r \in Requests : (pc[r] # "idle") ~> (pc[r] = "done" /\ h[r].sent = 1)

\* C29 witness: a request was answered once, with streams, although a
\* metadata provider call, the tracker refresh and an indexer query failed.
C29_Witness ==
    /\ pc["r1"] = "done" /\ h["r1"].sent = 1
    /\ h["r1"].response.status = 200 /\ h["r1"].response.streams # <<>>
    /\ "failed" \in Range(h["r1"].providerResults)
    /\ h["r1"].trackerOutcome = "failed"
    /\ \E k \in DOMAIN sj["r1"].dispatched : sj["r1"].dispatched[k].outcome = "failed"

\* resolved metadata with a year and neither a title nor an alternate title
YearOnly(md) ==
    /\ Truthy(md.resolvedYear)
    /\ ~Truthy(md.resolvedTitle)
    /\ md.alternativeTitles = <<>>

\* C30: a request answered with metadata that has a year but neither a title
\* nor alternate titles had the relevance filter applied with no reference
\* title at all: no candidate of the search matches by title, and the
\* response carries no stream, whatever the indexer returned.
C30_YearOnlyMetadataNoStreams ==
    \A r \in Requests :
        (pc[r] = "done" /\ YearOnly(h[r].resolvedMetadata)) =>
            /\ Filtering(h[r].resolvedMetadata)
            /\ allRelevantTitles(h[r].resolvedMetadata) = {}
            /\ \A i \in DOMAIN sj[r].result :
                  IsStr(sj[r].result[i].title) =>
                     ~TitleMatch(sj[r].result[i], h[r].resolvedMetadata)
            /\ h[r].response.streams = <<>>

\* C30 witness: TMDb gave a release date and no title, the search returned
\* torrents of a matching year with an info-hash, and the request was answered
\* with status 200 and no stream.
C30_Witness ==
    /\ pc["r1"] = "done" /\ YearOnly(h["r1"].resolvedMetadata)
    /\ h["r1"].response.status = 200 /\ h["r1"].response.streams = <<>>
    /\ \E i \in DOMAIN sj["r1"].result :
          /\ IsStr(sj["r1"].result[i].title)
          /\ YearMatch(sj["r1"].result[i], h["r1"].resolvedMetadata)
          /\ Truthy(getInfoHashFromMagnet(sj["r1"].result[i].link))

====
